---- MODULE Spec2Model ----
(***************************************************************************)
(* The privacy wallet of chain33 (wallet/privacy.go): construction of the  *)
(* three kinds of privacy transaction and the per-account UTXO state       *)
(* machine (available, FTXO, STXO, revert-FTXO) under builds, the expiry   *)
(* timer, rescans and block events.                                        *)
(*                                                                         *)
(* Amounts are int64 in the program; the model keeps every amount below    *)
(* 10 * Coin, so no arithmetic leaves the range TLC computes in.           *)
(* Go slices are 0-based: an output index is the Go index, and the output  *)
(* of index i is element i + 1 of the model's sequence.                    *)
(***************************************************************************)
EXTENDS Integers, Sequences, FiniteSets, TLC

\* ------------------------------------------------------------- bounds
\* Number of transactions the wallet may build in one behaviour.
MaxTx == 2
\* Number of blocks the chain may hold above its initial head.
MaxBlocks == 2
\* Number of rescans that may be requested in one behaviour.

\* -------------------------------------------------- program constants
Coin == 100000000
BTYDustThreshold == 1000000
PrivacyTxFee == Coin
PrivacyMaturityDegree == 12
PrivacyMaxCount == 16
MaxTxHashsPerTime == 100
MaxUtxosPerTime == 1000
\* time.Hour, in block times: one block per hour.
Hour == 1

\* The accounts of the wallet, in the order GetAccountByPrefix lists them.
WalletAccStores == <<"A", "B">>
\* A key pair that belongs to no account of this wallet.
ExternalKeys == "X"
\* What parseViewSpendPubKeyPair cannot parse: a pair that is not 64 bytes.
BadPubKeyPair == "short"
BTY == "BTY"
NoTx == -1
NoHeader == [height |-> -1, blockTime |-> -1]

\* ------------------------------------------------------------ helpers
Range(s) == {s[i] : i \in DOMAIN s}

RECURSIVE SumSeq(_)
SumSeq(s) == IF s = <<>> THEN 0 ELSE Head(s) + SumSeq(Tail(s))

RECURSIVE SetToSeq(_)
\* The elements of a set of pairs <<key, value>> in ascending key order:
\* the order in which the key-value store iterates a prefix.
SetToSeq(S) ==
    IF S = {} THEN <<>>
    ELSE LET m == CHOOSE x \in S : \A y \in S : x[1] <= y[1]
         IN  <<m>> \o SetToSeq(S \ {m})

\* ----------------------------------------------------- crypto oracle
\* GenerateOneTimeAddr(viewpub, spendpub, sktx, index): P = Hs(rA, i)G + B.
\* keys names the recipient's pair (A, B), r the ephemeral key of the
\* transaction (one per transaction, so the transaction's number names it).
GenerateOneTimeAddr(keys, r, index) == [keys |-> keys, r |-> r, i |-> index]

\* RecoverOnetimePriKey(R, viewpriv, spendpriv, index): x = Hs(aR, i) + b.
RecoverOnetimePriKey(R, keys, index) == [keys |-> keys, r |-> R, i |-> index]

\* priv.PubKey(): xG.
PubKey(priv) == [keys |-> priv.keys, r |-> priv.r, i |-> priv.i]

\* GenerateKeyImage(x, P) = x Hp(P).
GenerateKeyImage(priv, pub) == [x |-> priv, P |-> pub]

\* ------------------------------------------------------------ int64
\* An int64 amount n is the pair hi, lo of n = hi * Limb + lo with
\* 0 <= lo < Limb: the amounts the decomposer is used with go beyond the
\* 32 bits of the numbers of the checker (62387455827 in the comment of
\* decomposeAmount2digits), and stay below 2^31 * Limb.
Limb == 100000000

I64(n) == [hi |-> n \div Limb, lo |-> n % Limb]
IntOf(w) == w.hi * Limb + w.lo

I64Less(a, b) == a.hi < b.hi \/ (a.hi = b.hi /\ a.lo < b.lo)
I64Add(a, b) ==
    LET lo == a.lo + b.lo
    IN  [hi |-> a.hi + b.hi + lo \div Limb, lo |-> lo % Limb]
I64Sub(a, b) ==
    LET lo == a.lo - b.lo
    IN  [hi |-> a.hi - b.hi + lo \div Limb, lo |-> lo % Limb]
\* a * m for a small m (a digit, or ten).
I64Mul(a, m) ==
    LET lo == a.lo * m
    IN  [hi |-> a.hi * m + lo \div Limb, lo |-> lo % Limb]
I64Div10(a) ==
    [hi |-> a.hi \div 10, lo |-> (a.hi % 10) * (Limb \div 10) + a.lo \div 10]
I64Mod10(a) == a.lo % 10

RECURSIVE I64Sum(_)
I64Sum(s) == IF s = <<>> THEN I64(0) ELSE I64Add(Head(s), I64Sum(Tail(s)))

RECURSIVE I64Div(_, _)
\* a / b for a >= 0 and b > 0, a number of the checker.
I64Div(a, b) == IF I64Less(a, b) THEN 0 ELSE 1 + I64Div(I64Sub(a, b), b)

\* ------------------------------------------------- amount decomposer
\* decomAmount2Nature without the last term of the digit 8.
decomAmount2NatureShort(amount, order) ==
    IF order = I64(0) THEN <<>>
    ELSE LET mul == I64Div(amount, order)
         IN  CASE mul = 3 -> <<order, I64Mul(order, 2)>>
               [] mul = 4 -> <<I64Mul(order, 2), I64Mul(order, 2)>>
               [] mul = 6 -> <<I64Mul(order, 5), order>>
               [] mul = 7 -> <<I64Mul(order, 5), I64Mul(order, 2)>>
               [] mul = 8 -> <<I64Mul(order, 5), I64Mul(order, 2)>>
               [] mul = 9 -> <<I64Mul(order, 5), I64Mul(order, 2), I64Mul(order, 2)>>
               [] OTHER   -> <<I64Mul(order, mul)>>

\* decomAmount2Nature with the default branch only: the chunk as it is.
decomAmount2NatureWhole(amount, order) ==
    IF order = I64(0) THEN <<>>
    ELSE <<I64Mul(order, I64Div(amount, order))>>

decomAmount2Nature(amount, order) ==
    IF order = I64(0) THEN <<>>
    ELSE LET mul == I64Div(amount, order)
         IN  CASE mul = 3 -> <<order, I64Mul(order, 2)>>
               [] mul = 4 -> <<I64Mul(order, 2), I64Mul(order, 2)>>
               [] mul = 6 -> <<I64Mul(order, 5), order>>
               [] mul = 7 -> <<I64Mul(order, 5), I64Mul(order, 2)>>
               [] mul = 8 -> <<I64Mul(order, 5), I64Mul(order, 2), I64Mul(order, 1)>>
               [] mul = 9 -> <<I64Mul(order, 5), I64Mul(order, 2), I64Mul(order, 2)>>
               [] OTHER   -> <<I64Mul(order, mul)>>

RECURSIVE decomposeLoop(_, _, _, _, _, _)
\* The loop of decomposeAmount2digits from the turn that starts with
\* these values of the variables of the program.
decomposeLoop(amount, order, dust, is_dust_handled, res, dust_threshold) ==
    IF amount = I64(0)
    THEN IF ~is_dust_handled /\ dust # I64(0) THEN Append(res, dust) ELSE res
    ELSE LET chunk   == I64Mul(order, I64Mod10(amount))
             amount1 == I64Div10(amount)
             order1  == I64Mul(order, 10)
         IN  IF I64Less(I64Add(dust, chunk), dust_threshold)
             THEN decomposeLoop(amount1, order1, I64Add(dust, chunk),
                                is_dust_handled, res, dust_threshold)
             ELSE LET handle == ~is_dust_handled /\ dust # I64(0)
                      res1   == IF handle THEN Append(res, dust) ELSE res
                      res2   == IF chunk # I64(0)
                                THEN res1 \o decomAmount2Nature(chunk, I64Div10(order1))
                                ELSE res1
                  IN  decomposeLoop(amount1, order1, dust,
                                    is_dust_handled \/ handle, res2,
                                    dust_threshold)

\* decomposeAmount2digits saving the dust after the loop only.
decomposeDustLast(amount, dust_threshold) ==
    IF ~I64Less(I64(0), amount) THEN <<>>
    ELSE LET res  == decomposeLoop(amount, I64(1), I64(0), TRUE, <<>>,
                                   dust_threshold)
             dust == I64Sub(amount, I64Sum(res))
         IN  IF dust # I64(0) THEN Append(res, dust) ELSE res

\* decomposeAmount2digits gathering no dust: every digit is a chunk.
decomposeNoDust(amount, dust_threshold) ==
    IF ~I64Less(I64(0), amount) THEN <<>>
    ELSE decomposeLoop(amount, I64(1), I64(0), FALSE, <<>>, I64(0))

\* decomposeAmount2digits of int64 values.
decomposeAmount2digits(amount, dust_threshold) ==
    IF ~I64Less(I64(0), amount) THEN <<>>
    ELSE decomposeLoop(amount, I64(1), I64(0), FALSE, <<>>, dust_threshold)

\* No decomposition: the amount is one element.
decomposeWhole(amount, dust_threshold) ==
    IF amount > 0 THEN <<amount>> ELSE <<>>

\* decomposeAmount2digits as generateOuts uses it, with amounts that are
\* numbers of the checker.
decomposeInt(amount, dust_threshold) ==
    LET res == decomposeAmount2digits(I64(amount), I64(dust_threshold))
    IN  [k \in DOMAIN res |-> IntOf(res[k])]

checkAmountValid(amount) ==
    /\ amount > 0
    /\ (amount \div Coin) * Coin = amount

\* ---------------------------------------------------- output builder
\* generateOuts with the fee output of the code that is commented out
\* (356-363): the fee is one more output.
generateOutsFee(keysTo, keysChangeTo, transAmount, selectedAmount, fee, r) ==
    LET decomDigit   == decomposeInt(transAmount, BTYDustThreshold)
        changeAmount == selectedAmount - transAmount - fee
        decomChange  == IF 0 < changeAmount
                        THEN decomposeInt(changeAmount, BTYDustThreshold)
                        ELSE <<>>
        amounts      == decomDigit \o decomChange
                            \o (IF fee # 0 THEN <<fee>> ELSE <<>>)
        n            == Len(decomDigit)
        m            == Len(decomChange)
    IN  [RpubKeytx |-> r,
         Keyoutput |->
            [k \in 1..Len(amounts) |->
                [amount |-> amounts[k],
                 onetimepubkey |->
                    GenerateOneTimeAddr(IF k <= n THEN keysTo
                                        ELSE IF k <= n + m THEN keysChangeTo
                                        ELSE "fee", r, k - 1)]]]

\* generateOuts with the index of the change outputs starting at 0 again.
generateOutsRestart(keysTo, keysChangeTo, transAmount, selectedAmount, fee, r) ==
    LET decomDigit   == decomposeInt(transAmount, BTYDustThreshold)
        changeAmount == selectedAmount - transAmount - fee
        decomChange  == IF 0 < changeAmount
                        THEN decomposeInt(changeAmount, BTYDustThreshold)
                        ELSE <<>>
        n            == Len(decomDigit)
    IN  [RpubKeytx |-> r,
         Keyoutput |->
            [k \in 1..(n + Len(decomChange)) |->
                IF k <= n
                THEN [amount |-> decomDigit[k],
                      onetimepubkey |-> GenerateOneTimeAddr(keysTo, r, k - 1)]
                ELSE [amount |-> decomChange[k - n],
                      onetimepubkey |->
                          GenerateOneTimeAddr(keysChangeTo, r, k - n - 1)]]]

\* generateOuts: the transfer outputs first, the change outputs second, one
\* ephemeral key r; the fee gets no output.
generateOuts(keysTo, keysChangeTo, transAmount, selectedAmount, fee, r) ==
    LET decomDigit   == decomposeInt(transAmount, BTYDustThreshold)
        changeAmount == selectedAmount - transAmount - fee
        decomChange  == IF 0 < changeAmount
                        THEN decomposeInt(changeAmount, BTYDustThreshold)
                        ELSE <<>>
        n            == Len(decomDigit)
    IN  [RpubKeytx |-> r,
         Keyoutput |->
            [k \in 1..(n + Len(decomChange)) |->
                IF k <= n
                THEN [amount |-> decomDigit[k],
                      onetimepubkey |-> GenerateOneTimeAddr(keysTo, r, k - 1)]
                ELSE [amount |-> decomChange[k - n],
                      onetimepubkey |->
                          GenerateOneTimeAddr(keysChangeTo, r, (k - n - 1) + n)]]]

\* genCustomOuts: count outputs of transAmount each.
genCustomOuts(keysTo, transAmount, count, r) ==
    [RpubKeytx |-> r,
     Keyoutput |->
        [k \in 1..count |->
            [amount |-> transAmount,
             onetimepubkey |-> GenerateOneTimeAddr(keysTo, r, k - 1)]]]

parseOk(pubkeypair) == pubkeypair # BadPubKeyPair

\* ------------------------------------------------------------- state
VARIABLES
    txs,            \* the transactions the wallet built and handed out, by number
    mempool,        \* numbers of the transactions sent and not in a block
    blocks,         \* the blocks above the initial head: [tx, ok]
    lastHeader,     \* wallet.lastHeader
    utxoRec,        \* store: (tx_hash, out_index) -> PrivacyDBStore record
    availIdx,       \* store: privacy-utxo/<token>/<addr>/<tx_hash>/<out_index>
    ftxos,          \* store: privacy-ftxo/<token>/<addr>/<tx_hash>
    revertFtxos,    \* store: privacy-revert-ftxo/<token>/<addr>/<tx_hash>
    stxos,          \* store: privacy-stxo/<token>/<addr>/<tx_hash>
    scanInput,      \* store: privacy-scan-input/<tx_hash>/<out_index>
    rescanFlagDb,   \* store: privacy-rescan-flag/<addr>
    rescanUTXOflag, \* wallet.rescanUTXOflag
    rescan,         \* the rescan goroutine: its position and its addrs
    reply,          \* what the entry point called in this step returned
    fnArgs,         \* the arguments a function of the wallet is applied to
    fnResult,       \* what it returned
    mtx,            \* wallet.mtx: who holds it
    pc,             \* where each goroutine of the wallet is
    client          \* the PbftClient of the node's consensus, if it runs one

vars == <<txs, mempool, blocks, lastHeader, utxoRec, availIdx, ftxos,
          revertFtxos, stxos, scanInput, rescanFlagDb, rescanUTXOflag,
          rescan, reply, fnArgs, fnResult, mtx, pc, client>>

storeVars == <<utxoRec, availIdx, ftxos, revertFtxos, stxos, scanInput,
               rescanFlagDb>>
chainVars == <<txs, mempool, blocks>>

NoReply == [err |-> "none", tx |-> NoTx]

\* No function is applied on its own in the runs of the wallet, and a call
\* of the wallet is one step: the mutex is free before and after it.
\* The runs of the wallet have no consensus client.
NoClient == [pc |-> "none"]
NoArgs == [fn |-> "none"]
NoResult == [fn |-> "none"]
NoApply == UNCHANGED <<fnArgs, fnResult, mtx, pc, client>>

\* The goroutines that work on the wallet: a call of an entry point, the
\* expiry timer, RescanReqUtxosByAddr and the delivery of a block event.
Threads == {"build", "timer", "rescan", "block"}

\* --------------------------------------------------------- the chain
\* The transaction the chain held before the wallet started: another
\* wallet's createUTXOs of two outputs for account A, in the block of
\* height 1.
GenesisTx ==
    [ty |-> "Public2Privacy", tokenname |-> BTY, amount |-> 4 * Coin,
     from |-> "pub", input |-> <<>>,
     output |-> genCustomOuts("A", 2 * Coin, 2, 0),
     expire |-> 0, mode |-> "direct",
     signParam |-> [utxobasics |-> <<>>, realKeyInputs |-> <<>>]]
GenesisHeight == 1
\* The height of the chain's head when the wallet starts: the outputs of
\* GenesisTx are mature there.
BaseHeight == GenesisHeight + PrivacyMaturityDegree + 1

Tx(t) == IF t = 0 THEN GenesisTx ELSE txs[t]
Height == BaseHeight + Len(blocks)
\* The block time of the block of height h: one tick per block.
BlockTimeAt(h) == h
Now == BlockTimeAt(Height)

\* The transactions in a block, and those whose receipt is ExecOk.
InBlocks(bs) == {0} \cup {bs[i].tx : i \in DOMAIN bs}
OkInBlocks(bs) == {0} \cup {bs[i].tx : i \in {j \in DOMAIN bs : bs[j].ok}}
TxHeight(t) ==
    IF t = 0 THEN GenesisHeight
    ELSE BaseHeight + (CHOOSE i \in DOMAIN blocks : blocks[i].tx = t)

UTXOGlobalIndex(t, i) == [txhash |-> t, outindex |-> i]
IdKey(id) == id.txhash * 16 + id.outindex
OutputOf(id) == Tx(id.txhash).output.Keyoutput[id.outindex + 1]
OutputIds(t) ==
    {UTXOGlobalIndex(t, k - 1) : k \in DOMAIN Tx(t).output.Keyoutput}

\* api.QueryTx: the chain knows the transactions of its blocks.
QueryTx(txhash) == txhash \in InBlocks(blocks)

\* The key images of the inputs of the successful transactions of bs.
SpentKeyImages(bs) ==
    UNION {{Tx(t).input[k].keyImage : k \in DOMAIN Tx(t).input} :
           t \in OkInBlocks(bs)}

\* The ring signature of input k verifies: the signer held the one-time
\* private key of the ring member at the real position, the key image is
\* that key's, and the ring the signer used is the ring of the KeyInput.
RingValid(tx, k) ==
    LET ring == tx.signParam.utxobasics[k]
        real == tx.signParam.realKeyInputs[k]
        pos  == real.realinputkey + 1
    IN  /\ pos \in DOMAIN ring
        /\ PubKey(real.onetimeprivkey) = ring[pos].onetimepubkey
        /\ tx.input[k].keyImage =
               GenerateKeyImage(real.onetimeprivkey, ring[pos].onetimepubkey)
        /\ tx.input[k].utxoGlobalIndex =
               [j \in DOMAIN ring |-> ring[j].utxoGlobalIndex]

\* What the chain's check of a transaction (mempool and executor) accepts.
ChainAccepts(tx, bs) ==
    \/ tx.ty = "Public2Privacy"
    \/ /\ \A k \in DOMAIN tx.input : RingValid(tx, k)
       /\ \A k \in DOMAIN tx.input :
            /\ tx.input[k].keyImage \notin SpentKeyImages(bs)
            /\ \A j \in DOMAIN tx.input[k].utxoGlobalIndex :
                 tx.input[k].utxoGlobalIndex[j].txhash \in OkInBlocks(bs)

\* GetUTXOGlobalIndex: per requested amount, the first mix outputs of that
\* amount the chain holds.
RECURSIVE FirstN(_, _)
FirstN(s, n) == IF n <= 0 \/ s = <<>> THEN <<>> ELSE <<Head(s)>> \o FirstN(Tail(s), n - 1)

ChainUTXOsOfAmount(amount) ==
    LET ids == {id \in UNION {OutputIds(t) : t \in OkInBlocks(blocks)} :
                   OutputOf(id).amount = amount}
        s   == SetToSeq({<<IdKey(id), id>> : id \in ids})
    IN  [k \in DOMAIN s |->
            [utxoGlobalIndex |-> s[k][2],
             onetimepubkey |-> OutputOf(s[k][2]).onetimepubkey]]

GetUTXOGlobalIndex(amounts, mixCount) ==
    [k \in DOMAIN amounts |->
        [amount |-> amounts[k],
         utxos |-> FirstN(ChainUTXOsOfAmount(amounts[k]), mixCount)]]

\* --------------------------------------------------------- the store
\* The key-value store of the wallet as one value; an operation of the
\* store maps a store to a store, and a handler's batch is the composition.
Store ==
    [utxoRec |-> utxoRec, availIdx |-> availIdx, ftxos |-> ftxos,
     revertFtxos |-> revertFtxos, stxos |-> stxos, scanInput |-> scanInput]

SetStore(S) ==
    /\ utxoRec' = S.utxoRec
    /\ availIdx' = S.availIdx
    /\ ftxos' = S.ftxos
    /\ revertFtxos' = S.revertFtxos
    /\ stxos' = S.stxos
    /\ scanInput' = S.scanInput

AvailKey(token, owner, id) == [tokenname |-> token, owner |-> owner, id |-> id]
SameKey(r, token, sender, txhash) ==
    r.tokenname = token /\ r.sender = sender /\ r.txhash = txhash

\* IsUTXOExist: the record of (tx_hash, out_index), if any.
IsUTXOExist(S, txhash, outindex) ==
    UTXOGlobalIndex(txhash, outindex) \in DOMAIN S.utxoRec

\* setUTXO: one record per (tx_hash, out_index); a duplicate is skipped.
setUTXO(S, addr, txhash, outindex, info2store) ==
    LET id == UTXOGlobalIndex(txhash, outindex)
    IN  IF id \in DOMAIN S.utxoRec THEN S
        ELSE [S EXCEPT
                !.utxoRec = (id :> info2store) @@ @,
                !.availIdx = @ \cup {AvailKey(info2store.tokenname, addr, id)}]

\* moveUTXO2FTXO: the selected outputs leave the available index and are
\* kept under the key of the transaction, with its expiry; nothing happens
\* when the key exists.
moveUTXO2FTXO(S, tx, token, sender, txhash, selectedUtxos) ==
    IF \E r \in S.ftxos : SameKey(r, token, sender, txhash) THEN S
    ELSE LET ids == {selectedUtxos[k].utxoGlobalIndex : k \in DOMAIN selectedUtxos}
         IN  [S EXCEPT
                !.availIdx = @ \ {AvailKey(token, sender, id) : id \in ids},
                !.ftxos = @ \cup {[tokenname |-> token, sender |-> sender,
                                   txhash |-> txhash, utxos |-> ids,
                                   expire |-> tx.expire]}]

\* moveFTXO2UTXO: executes only if the predicate holds of the hash of the
\* transaction that froze the outputs; the record (of the FTXO or of the
\* revert-FTXO keyspace) is deleted and its outputs are available again.
moveFTXO2UTXO(S, rec, predicate) ==
    IF ~predicate[rec.txhash] THEN S
    ELSE [S EXCEPT
            !.ftxos = @ \ {rec},
            !.revertFtxos = @ \ {rec},
            !.availIdx = @ \cup {AvailKey(rec.tokenname, rec.sender, id) :
                                    id \in rec.utxos}]

\* moveUTXO2STXO: the outputs leave the available index of (token, owner)
\* and are kept under the spent key of the transaction.
moveUTXO2STXO(S, owner, token, txhash, utxos) ==
    [S EXCEPT
        !.availIdx = @ \ {AvailKey(token, owner, id) : id \in utxos},
        !.stxos = {r \in @ : ~SameKey(r, token, owner, txhash)} \cup
                  {[tokenname |-> token, sender |-> owner, txhash |-> txhash,
                    utxos |-> utxos, expire |-> 0]}]

StoreScanPrivacyInputUTXO(S, utxoGlobalIndexs) ==
    [S EXCEPT !.scanInput = @ \cup utxoGlobalIndexs]

\* IsExpire: the header's block time has reached the expiry of the entry.
IsExpire(ftxo, height, blockTime) == blockTime >= ftxo.expire

\* GetScanPrivacyInputUTXO: up to count observed inputs, in key order.
GetScanPrivacyInputUTXO(S, count) ==
    LET s == SetToSeq({<<IdKey(id), id>> : id \in S.scanInput})
    IN  FirstN([k \in DOMAIN s |-> s[k][2]], count)

\* getPrivacyTokenUTXOs: the available outputs of (token, addr), in key order.
getPrivacyTokenUTXOs(token, addr) ==
    LET ids == {k.id : k \in {a \in availIdx : a.tokenname = token /\ a.owner = addr}}
        s   == SetToSeq({<<IdKey(id), id>> : id \in ids})
    IN  [k \in DOMAIN s |->
            [height |-> utxoRec[s[k][2]].height,
             outinfo |-> [amount |-> utxoRec[s[k][2]].amount,
                          utxoGlobalIndex |-> s[k][2],
                          txPublicKeyR |-> utxoRec[s[k][2]].txPublicKeyR,
                          onetimePublicKey |-> utxoRec[s[k][2]].onetimePublicKey]]]

\* ------------------------------------------------------ sort.Slice
RECURSIVE insertLeft(_, _, _)
\* The inner loop of insertionSort: x moves left while less(x, left
\* neighbour); orEqual is the comparator <= (FALSE: <).
insertLeft(p, x, orEqual) ==
    IF p = <<>> THEN <<x>>
    ELSE LET last == p[Len(p)]
         IN  IF x[1] < last[1] \/ (orEqual /\ x[1] = last[1])
             THEN Append(insertLeft(SubSeq(p, 1, Len(p) - 1), x, orEqual), last)
             ELSE Append(p, x)

RECURSIVE insertionSort(_, _, _)
insertionSort(done, todo, orEqual) ==
    IF todo = <<>> THEN done
    ELSE insertionSort(insertLeft(done, Head(todo), orEqual), Tail(todo), orEqual)

\* sort.Slice(s, less) of a slice of at most 6 elements (an insertion
\* sort), less comparing keys[i] and keys[j] with <= or with <.
sortSlice(s, keys, orEqual) ==
    LET sorted == insertionSort(<<>>, [i \in DOMAIN s |-> <<keys[i], s[i]>>], orEqual)
    IN  [i \in DOMAIN sorted |-> sorted[i][2]]

\* ------------------------------------------------------- selectUTXO
RECURSIVE takeUntil(_, _, _)
\* The loop over the sorted unconfirmed outputs: each is added until the
\* balance reaches the amount.
takeUntil(unconfirm, balance, amount) ==
    IF unconfirm = <<>> THEN <<>>
    ELSE IF balance + Head(unconfirm).outinfo.amount >= amount
         THEN <<Head(unconfirm)>>
         ELSE <<Head(unconfirm)>> \o
              takeUntil(Tail(unconfirm), balance + Head(unconfirm).outinfo.amount, amount)

\* selectPool without the test curBlockHeight < wutxo.height: the outputs
\* of blocks above the current head are drawn from as well.
selectPoolAll(wutxos, curBlockHeight, amount) ==
    LET confirm  == SelectSeq(wutxos,
                        LAMBDA w : curBlockHeight - w.height > PrivacyMaturityDegree)
        unconf   == SelectSeq(wutxos,
                        LAMBDA w : ~(curBlockHeight - w.height > PrivacyMaturityDegree))
        balance  == SumSeq([k \in DOMAIN confirm |-> confirm[k].outinfo.amount])
    IN  IF balance < amount /\ Len(unconf) > 0
        THEN confirm \o
             takeUntil(sortSlice(unconf, [k \in DOMAIN unconf |-> unconf[k].height], FALSE),
                       balance, amount)
        ELSE confirm

\* selectPool with an output confirmed from PrivacyMaturityDegree blocks
\* on, not from one more.
selectPoolMature(wutxos, curBlockHeight, amount) ==
    LET usable   == SelectSeq(wutxos, LAMBDA w : ~(curBlockHeight < w.height))
        confirm  == SelectSeq(usable,
                        LAMBDA w : curBlockHeight - w.height >= PrivacyMaturityDegree)
        unconf   == SelectSeq(usable,
                        LAMBDA w : ~(curBlockHeight - w.height >= PrivacyMaturityDegree))
        balance  == SumSeq([k \in DOMAIN confirm |-> confirm[k].outinfo.amount])
    IN  IF balance < amount /\ Len(unconf) > 0
        THEN confirm \o
             takeUntil(sortSlice(unconf, [k \in DOMAIN unconf |-> unconf[k].height], FALSE),
                       balance, amount)
        ELSE confirm

\* The outputs selectUTXO draws from: the confirmed ones and, if they do
\* not cover the amount, the oldest unconfirmed ones.
selectPool(wutxos, curBlockHeight, amount) ==
    LET usable   == SelectSeq(wutxos, LAMBDA w : ~(curBlockHeight < w.height))
        confirm  == SelectSeq(usable,
                        LAMBDA w : curBlockHeight - w.height > PrivacyMaturityDegree)
        unconf   == SelectSeq(usable,
                        LAMBDA w : ~(curBlockHeight - w.height > PrivacyMaturityDegree))
        balance  == SumSeq([k \in DOMAIN confirm |-> confirm[k].outinfo.amount])
    IN  IF balance < amount /\ Len(unconf) > 0
        THEN confirm \o
             takeUntil(sortSlice(unconf, [k \in DOMAIN unconf |-> unconf[k].height], FALSE),
                       balance, amount)
        ELSE confirm

RECURSIVE randomPicks(_, _)
\* The selections the loop of random draws can return: a drawn output is
\* removed from the pool, and drawing stops when the amount is covered.
randomPicks(pool, need) ==
    IF need <= 0 THEN {<<>>}
    ELSE UNION {{<<w.outinfo>> \o rest :
                    rest \in randomPicks(pool \ {w}, need - w.outinfo.amount)} :
                w \in pool}

selectUTXOErr(token, addr, amount) ==
    IF token = "" \/ addr = "" \/ amount <= 0 THEN "ErrInvalidParams"
    ELSE LET pool == selectPool(getPrivacyTokenUTXOs(token, addr), Height, amount)
         IN  IF SumSeq([k \in DOMAIN pool |-> pool[k].outinfo.amount]) < amount
             THEN "ErrInsufficientBalance"
             ELSE "nil"

\* The selections selectUTXO can return when it returns no error.
selectUTXO(token, addr, amount) ==
    randomPicks(Range(selectPool(getPrivacyTokenUTXOs(token, addr), Height, amount)),
                amount)

\* ------------------------------------------------------- buildInput
\* The decoys of a response entry without the first one whose one-time
\* public key is the real output's.
removeSelf(utxos, pub) ==
    LET js == {j \in DOMAIN utxos : utxos[j].onetimepubkey = pub}
    IN  IF js = {} THEN utxos
        ELSE LET j == CHOOSE x \in js : \A y \in js : x <= y
             IN  SubSeq(utxos, 1, j - 1) \o SubSeq(utxos, j + 1, Len(utxos))

\* utxoIndex4Amount.Utxos of input i (0-based i - 1): the outputs of the
\* response entry of the same position and amount without the real output,
\* none when there is no such entry.
mixDecoys(i, utxo2pay, res) ==
    LET hit == /\ ~res.nil
               /\ i <= Len(res.UtxoIndex4Amount)
               /\ utxo2pay.amount = res.UtxoIndex4Amount[i].amount
    IN  IF hit
        THEN removeSelf(res.UtxoIndex4Amount[i].utxos, utxo2pay.onetimePublicKey)
        ELSE <<>>

\* utxoIndex4Amount.Utxos[:len(utxoIndex4Amount.Utxos)-1] is out of range
\* when the slice is empty and mixcount is below its length: the
\* goroutine panics.
slicePanics(i, utxo2pay, res, mixcount) ==
    LET l0 == mixDecoys(i, utxo2pay, res)
    IN  Len(l0) > mixcount /\ Len(l0) - 1 < 0

\* The ring of input i (0-based i - 1) before it is permuted: the decoys
\* of the response entry of the same position and amount, and the real
\* output last.
mixList(i, utxo2pay, res, mixcount) ==
    LET l0    == mixDecoys(i, utxo2pay, res)
        l1    == IF Len(l0) > mixcount THEN SubSeq(l0, 1, Len(l0) - 1) ELSE l0
    IN  Append(l1, [utxoGlobalIndex |-> utxo2pay.utxoGlobalIndex,
                    onetimepubkey |-> utxo2pay.onetimePublicKey])

\* random.Perm(n): a permutation of 0 .. n-1, as the positions of 1 .. n.
Perm(n) == {f \in [1..n -> 0..(n - 1)] : \A a, b \in 1..n : a # b => f[a] # f[b]}

\* The permutation applied the other way round: utxos[k] = list[position].
permuteInverse(list, positions) ==
    [k \in DOMAIN list |-> list[positions[k] + 1]]

\* utxos[position] = list[k] for every k, position in positions.
permute(list, positions) ==
    [p \in DOMAIN list |-> list[CHOOSE k \in DOMAIN list : positions[k] = p - 1]]

NilResponse == [nil |-> TRUE, UtxoIndex4Amount |-> <<>>]

\* The response of the chain as buildInput uses it: sorted by amount.
sortResponse(res) ==
    IF res.nil THEN res
    ELSE [res EXCEPT !.UtxoIndex4Amount =
            sortSlice(@, [k \in DOMAIN @ |-> @[k].amount], TRUE)]

sortSelected(selectedUtxo) ==
    sortSlice(selectedUtxo, [k \in DOMAIN selectedUtxo |-> selectedUtxo[k].amount], TRUE)

\* buildInput after selectUTXO returned selectedUtxo and the chain query
\* res (NilResponse when none was made), with the permutation of each ring.
buildInputWith(keys, mixcount, selectedUtxo, res, perms) ==
    LET sel    == sortSelected(selectedUtxo)
        sres   == sortResponse(res)
        list   == [i \in DOMAIN sel |-> mixList(i, sel[i], sres, mixcount)]
        utxos  == [i \in DOMAIN sel |-> permute(list[i], perms[i])]
        priv   == [i \in DOMAIN sel |->
                     RecoverOnetimePriKey(sel[i].txPublicKeyR, keys,
                                          sel[i].utxoGlobalIndex.outindex)]
    IN  [privacyInput |->
            [i \in DOMAIN sel |->
                [amount |-> sel[i].amount,
                 keyImage |-> GenerateKeyImage(priv[i], sel[i].onetimePublicKey),
                 utxoGlobalIndex |->
                     [j \in DOMAIN utxos[i] |-> utxos[i][j].utxoGlobalIndex]]],
         utxosInKeyInput |-> utxos,
         realkeyInputSlice |->
            [i \in DOMAIN sel |->
                [realinputkey |-> perms[i][Len(list[i])],
                 onetimeprivkey |-> priv[i]]],
         selectedUtxo |-> sel]

\* The permutations random.Perm can return for the rings of a selection.
permChoices(mixcount, selectedUtxo, res) ==
    LET sel  == sortSelected(selectedUtxo)
        sres == sortResponse(res)
        size == [i \in DOMAIN sel |-> Len(mixList(i, sel[i], sres, mixcount))]
    IN  {f \in [DOMAIN sel -> UNION {Perm(size[i]) : i \in DOMAIN sel}] :
            \A i \in DOMAIN sel : f[i] \in Perm(size[i])}

\* The request buildInput sends to the chain when mixcount > 0.
chainQuery(mixcount, selectedUtxo) ==
    LET sel == sortSelected(selectedUtxo)
        MixCount == IF PrivacyMaxCount < mixcount THEN PrivacyMaxCount
                    ELSE IF mixcount > 0 THEN mixcount ELSE 0
    IN  [nil |-> FALSE,
         UtxoIndex4Amount |->
             GetUTXOGlobalIndex([k \in DOMAIN sel |-> sel[k].amount], MixCount)]

\* The results buildInput can return for a selection when the chain
\* answers its query.
buildInput(keys, buildInfo, selectedUtxo) ==
    LET res == IF buildInfo.mixcount > 0
               THEN chainQuery(buildInfo.mixcount, selectedUtxo)
               ELSE NilResponse
    IN  {buildInputWith(keys, buildInfo.mixcount, selectedUtxo, res, perms) :
            perms \in permChoices(buildInfo.mixcount, selectedUtxo, res)}

getExpire(expire) == IF expire > 0 THEN expire ELSE Hour

\* ------------------------------------------------------ the requests
Accounts == Range(WalletAccStores)
\* The account the requests spend from.
Senders == {"A"}
MixCounts == {0}

\* A request: type is the Type of a ReqCreateTransaction (0 in the
\* requests of the direct entry points).
Req(type, amount, pubkeypair, mixin, count) ==
    [nil |-> FALSE, type |-> type, tokenname |-> BTY, sender |-> "A",
     amount |-> amount, pubkeypair |-> pubkeypair, mixin |-> mixin,
     expire |-> 0, count |-> count]

NilReq == [Req(0, 0, ExternalKeys, 0, 0) EXCEPT !.nil = TRUE]

\* What the environment makes of a call: at most one of the wallet status
\* check, the chain query and the submission fails.
Envs == {"ok", "status", "query", "send"}

\* The calls of an entry point: the requests reqs under the outcomes envs
\* of the build, a call the wallet status check refuses, a nil request and
\* a request of amount 0.
CallsOf(reqs, envs) ==
    LET req == CHOOSE r \in reqs : TRUE
    IN  (reqs \X envs) \cup
        {<<req, "status">>, <<NilReq, "ok">>, <<[req EXCEPT !.amount = 0], "ok">>}

\* The chain is queried for the outputs to mix with when mixin > 0 only.
BuildEnvs == IF MixCounts = {0} THEN {"ok", "send"} ELSE {"ok", "send", "query"}

ReqPub2Pri ==
    CallsOf({Req(0, Coin, k, 0, 0) : k \in {"B", BadPubKeyPair}}, {"ok", "send"})
ReqPri2Pri ==
    CallsOf({Req(0, Coin, ExternalKeys, m, 0) : m \in MixCounts}
                \cup {Req(0, Coin, BadPubKeyPair, 0, 0)}, BuildEnvs)
ReqPri2Pub ==
    CallsOf({Req(0, Coin, ExternalKeys, m, 0) : m \in MixCounts}, BuildEnvs)
ReqCreateUTXOs ==
    CallsOf({Req(0, Coin, k, 0, 2) : k \in {ExternalKeys, BadPubKeyPair}},
            {"ok", "send"})
ReqCreateTransaction ==
    CallsOf({Req(ty, Coin, ExternalKeys, 0, 0) : ty \in {1, 2, 3}}
                \cup {Req(2, Coin, BadPubKeyPair, 0, 0)}, BuildEnvs \ {"send"})

\* -------------------------------------------------------- the replies
Fail(err) ==
    /\ reply' = [err |-> err, tx |-> NoTx]
    /\ UNCHANGED <<txs, mempool, blocks, lastHeader, storeVars,
                   rescanUTXOflag, rescan>>

Done(tx) == reply' = [err |-> "nil", tx |-> tx]

IsRescanUtxosFlagScaning == rescanUTXOflag = "Scaning"

\* getPrivacykeyPair(addr): the key pair of an account of the wallet.
getPrivacykeyPair(addr) == addr

InputTotal(privacyInput) ==
    SumSeq([k \in DOMAIN privacyInput |-> privacyInput[k].amount])

NoSignParam == [utxobasics |-> <<>>, realKeyInputs |-> <<>>]

\* A saveFTXOInfo that freezes nothing: the variant of it that C2 has to
\* tell from the code's.
saveNoFTXOInfo(S, tx, token, sender, txhash, selectedUtxos) == S

\* saveFTXOInfo: the outputs a transaction takes as inputs are frozen.
saveFTXOInfo(S, tx, token, sender, txhash, selectedUtxos) ==
    moveUTXO2FTXO(S, tx, token, sender, txhash, selectedUtxos)

\* An end of transPri2PriV2 that calls saveFTXOInfo whatever SendTx
\* returned: the variant of it that C3 has to tell from the code's.
ftxoBeforeSend(S, sent, tx, token, sender, txhash, selectedUtxos) ==
    saveFTXOInfo(S, tx, token, sender, txhash, selectedUtxos)

\* The end of transPri2PriV2 and transPri2PubV2: the error of SendTx is
\* returned, and only past it saveFTXOInfo is called.
ftxoAfterSend(S, sent, tx, token, sender, txhash, selectedUtxos) ==
    IF ~sent THEN S
    ELSE saveFTXOInfo(S, tx, token, sender, txhash, selectedUtxos)

\* --------------------------------------------- the direct entry points
\* transPub2PriV2 and createUTXOsByPub2Priv: build, sign with the
\* account's key, send.
sendPub2Priv(output, req, expire, sendOk) ==
    LET n  == Len(txs) + 1
        tx == [ty |-> "Public2Privacy", tokenname |-> req.tokenname,
               amount |-> InputTotal(output.Keyoutput), from |-> "pub",
               input |-> <<>>, output |-> output, expire |-> expire,
               mode |-> "direct", signParam |-> NoSignParam]
    IN  IF ~sendOk THEN Fail("ErrSend")
        ELSE /\ n <= MaxTx
             /\ txs' = Append(txs, tx)
             /\ mempool' = mempool \cup {n}
             /\ Done(n)
             /\ UNCHANGED <<blocks, lastHeader, storeVars, rescanUTXOflag,
                            rescan>>

transPub2PriV2(reqPub2Pri, sendOk) ==
    IF ~parseOk(reqPub2Pri.pubkeypair) THEN Fail("ErrPubKeyLen")
    ELSE sendPub2Priv(generateOuts(reqPub2Pri.pubkeypair, "", reqPub2Pri.amount,
                                   reqPub2Pri.amount, 0, Len(txs) + 1),
                      reqPub2Pri, Now + getExpire(reqPub2Pri.expire), sendOk)

createUTXOsByPub2Priv(reqCreateUTXOs, sendOk) ==
    IF ~parseOk(reqCreateUTXOs.pubkeypair) THEN Fail("ErrPubKeyLen")
    ELSE sendPub2Priv(genCustomOuts(reqCreateUTXOs.pubkeypair, reqCreateUTXOs.amount,
                                    reqCreateUTXOs.count, Len(txs) + 1),
                      reqCreateUTXOs, 0, sendOk)

\* The transaction of a private spend: Privacy2Privacy to the key pair
\* keysTo, or Privacy2Public with change outputs only.
privacyTx(ty, req, b, keysTo, transAmount, selectedAmount, expire, mode) ==
    [ty |-> ty, tokenname |-> req.tokenname, amount |-> req.amount,
     from |-> req.sender, input |-> b.privacyInput,
     output |-> generateOuts(keysTo, getPrivacykeyPair(req.sender), transAmount,
                             selectedAmount, PrivacyTxFee, Len(txs) + 1),
     expire |-> expire, mode |-> mode,
     signParam |-> [utxobasics |-> b.utxosInKeyInput,
                    realKeyInputs |-> b.realkeyInputSlice]]

\* api.SendTx: the message does not get through, or the chain's check of
\* the transaction refuses it, or it is in the mempool.
SendTx(tx, sendOk) ==
    IF ~sendOk THEN "ErrSend"
    ELSE IF ~ChainAccepts(tx, blocks) THEN "ErrChainRefuses"
    ELSE "nil"

\* The direct send of a private spend: SendTx, then saveFTXOInfo.
sendPrivacyTx(tx, req, b, sendOk) ==
    LET n    == Len(txs) + 1
        sent == SendTx(tx, sendOk) = "nil"
    IN  /\ n <= MaxTx
        /\ SetStore(ftxoAfterSend(Store, sent, tx, req.tokenname, req.sender, n,
                                  b.selectedUtxo))
        /\ IF sent
           THEN txs' = Append(txs, tx) /\ mempool' = mempool \cup {n} /\ Done(n)
           ELSE /\ UNCHANGED <<txs, mempool>>
                /\ reply' = [err |-> SendTx(tx, sendOk), tx |-> NoTx]
        /\ UNCHANGED <<blocks, lastHeader, rescanFlagDb, rescanUTXOflag, rescan>>

transPri2PriV2(privacykeyParirs, reqPri2Pri, queryOk, sendOk) ==
    LET buildInfo == [tokenname |-> reqPri2Pri.tokenname, sender |-> reqPri2Pri.sender,
                      amount |-> reqPri2Pri.amount + PrivacyTxFee,
                      mixcount |-> reqPri2Pri.mixin]
        err == selectUTXOErr(buildInfo.tokenname, buildInfo.sender, buildInfo.amount)
    IN  IF err # "nil" THEN Fail(err)
        ELSE IF buildInfo.mixcount > 0 /\ ~queryOk THEN Fail("ErrQuery")
        ELSE IF ~parseOk(reqPri2Pri.pubkeypair) THEN Fail("ErrPubKeyLen")
        ELSE \E selected \in selectUTXO(buildInfo.tokenname, buildInfo.sender,
                                        buildInfo.amount) :
             \E b \in buildInput(privacykeyParirs, buildInfo, selected) :
                sendPrivacyTx(
                    privacyTx("Privacy2Privacy", reqPri2Pri, b, reqPri2Pri.pubkeypair,
                              reqPri2Pri.amount, InputTotal(b.privacyInput),
                              Now + getExpire(reqPri2Pri.expire), "direct"),
                    reqPri2Pri, b, sendOk)

transPri2PubV2(privacykeyParirs, reqPri2Pub, queryOk, sendOk) ==
    LET buildInfo == [tokenname |-> reqPri2Pub.tokenname, sender |-> reqPri2Pub.sender,
                      amount |-> reqPri2Pub.amount + PrivacyTxFee,
                      mixcount |-> reqPri2Pub.mixin]
        err == selectUTXOErr(buildInfo.tokenname, buildInfo.sender, buildInfo.amount)
    IN  IF err # "nil" THEN Fail(err)
        ELSE IF buildInfo.mixcount > 0 /\ ~queryOk THEN Fail("ErrQuery")
        ELSE \E selected \in selectUTXO(buildInfo.tokenname, buildInfo.sender,
                                        buildInfo.amount) :
             \E b \in buildInput(privacykeyParirs, buildInfo, selected) :
                IF \E k \in DOMAIN b.privacyInput : b.privacyInput[k].amount <= 0
                THEN Fail("ErrAmountInput")
                ELSE sendPrivacyTx(
                        privacyTx("Privacy2Public", reqPri2Pub, b, "", 0,
                                  InputTotal(b.privacyInput) - reqPri2Pub.amount,
                                  Now + getExpire(reqPri2Pub.expire), "direct"),
                        reqPri2Pub, b, sendOk)

\* The checks every direct entry point makes under the mutex before it
\* builds: the wallet status, the rescan flag, the request, the amount.
directChecks(req, statusOk) ==
    IF ~statusOk THEN "ErrWalletNotReady"
    ELSE IF IsRescanUtxosFlagScaning THEN "ErrRescanFlagScaning"
    ELSE IF req.nil THEN "ErrInputPara"
    ELSE IF ~checkAmountValid(req.amount) THEN "ErrAmount"
    ELSE "nil"

procPublic2PrivacyV2(public2private, statusOk, sendOk) ==
    LET err == IF ~statusOk THEN "ErrWalletNotReady"
               ELSE IF IsRescanUtxosFlagScaning THEN "ErrRescanFlagScaning"
               ELSE IF public2private.nil THEN "ErrInputPara"
               ELSE IF public2private.tokenname = "" THEN "ErrInvalidParams"
               ELSE IF ~checkAmountValid(public2private.amount) THEN "ErrAmount"
               ELSE "nil"
    IN  IF err # "nil" THEN Fail(err) ELSE transPub2PriV2(public2private, sendOk)

procPrivacy2PrivacyV2(privacy2privacy, statusOk, queryOk, sendOk) ==
    LET err == directChecks(privacy2privacy, statusOk)
    IN  IF err # "nil" THEN Fail(err)
        ELSE transPri2PriV2(getPrivacykeyPair(privacy2privacy.sender),
                            privacy2privacy, queryOk, sendOk)

procPrivacy2PublicV2(privacy2Pub, statusOk, queryOk, sendOk) ==
    LET err == directChecks(privacy2Pub, statusOk)
    IN  IF err # "nil" THEN Fail(err)
        ELSE transPri2PubV2(getPrivacykeyPair(privacy2Pub.sender),
                            privacy2Pub, queryOk, sendOk)

procCreateUTXOs(createUTXOs, statusOk, sendOk) ==
    LET err == directChecks(createUTXOs, statusOk)
    IN  IF err # "nil" THEN Fail(err) ELSE createUTXOsByPub2Priv(createUTXOs, sendOk)

\* ---------------------------------------------- the deferred entry point
createPublic2PrivacyTx(req) ==
    IF ~parseOk(req.pubkeypair) THEN Fail("ErrPubKeyLen")
    ELSE LET n  == Len(txs) + 1
             tx == [ty |-> "Public2Privacy", tokenname |-> req.tokenname,
                    amount |-> req.amount, from |-> "pub", input |-> <<>>,
                    output |-> generateOuts(req.pubkeypair, "", req.amount,
                                            req.amount, 0, n),
                    expire |-> 0, mode |-> "deferred", signParam |-> NoSignParam]
         IN  /\ n <= MaxTx
             /\ txs' = Append(txs, tx)
             /\ Done(n)
             /\ UNCHANGED <<mempool, blocks, lastHeader, storeVars,
                            rescanUTXOflag, rescan>>

\* The end of createPrivacy2PrivacyTx and createPrivacy2PublicTx: the
\* inputs are frozen and the unsigned transaction is handed out.
handOut(tx, req, b) ==
    LET n == Len(txs) + 1
    IN  /\ n <= MaxTx
        /\ SetStore(saveFTXOInfo(Store, tx, req.tokenname, req.sender, n,
                                 b.selectedUtxo))
        /\ txs' = Append(txs, tx)
        /\ Done(n)
        /\ UNCHANGED <<mempool, blocks, lastHeader, rescanFlagDb,
                       rescanUTXOflag, rescan>>

createPrivacy2PrivacyTx(req, queryOk) ==
    LET buildInfo == [tokenname |-> req.tokenname, sender |-> req.sender,
                      amount |-> req.amount + PrivacyTxFee, mixcount |-> req.mixin]
        err == selectUTXOErr(buildInfo.tokenname, buildInfo.sender, buildInfo.amount)
    IN  IF err # "nil" THEN Fail(err)
        ELSE IF buildInfo.mixcount > 0 /\ ~queryOk THEN Fail("ErrQuery")
        ELSE IF ~parseOk(req.pubkeypair) THEN Fail("ErrPubKeyLen")
        ELSE \E selected \in selectUTXO(buildInfo.tokenname, buildInfo.sender,
                                        buildInfo.amount) :
             \E b \in buildInput(getPrivacykeyPair(req.sender), buildInfo, selected) :
                handOut(privacyTx("Privacy2Privacy", req, b, req.pubkeypair,
                                  req.amount, InputTotal(b.privacyInput), 0,
                                  "deferred"),
                        req, b)

createPrivacy2PublicTx(req, queryOk) ==
    LET buildInfo == [tokenname |-> req.tokenname, sender |-> req.sender,
                      amount |-> req.amount + PrivacyTxFee, mixcount |-> req.mixin]
        err == selectUTXOErr(buildInfo.tokenname, buildInfo.sender, buildInfo.amount)
    IN  IF err # "nil" THEN Fail(err)
        ELSE IF buildInfo.mixcount > 0 /\ ~queryOk THEN Fail("ErrQuery")
        ELSE \E selected \in selectUTXO(buildInfo.tokenname, buildInfo.sender,
                                        buildInfo.amount) :
             \E b \in buildInput(getPrivacykeyPair(req.sender), buildInfo, selected) :
                IF \E k \in DOMAIN b.privacyInput : b.privacyInput[k].amount <= 0
                THEN Fail("ErrAmountInput")
                ELSE handOut(privacyTx("Privacy2Public", req, b, "", 0,
                                       InputTotal(b.privacyInput) - req.amount, 0,
                                       "deferred"),
                             req, b)

\* procCreateTransaction: the checks, then the build of the request's type.
procCreateTransaction(req, statusOk, queryOk) ==
    LET err == IF ~statusOk THEN "ErrWalletNotReady"
               ELSE IF req.nil THEN "ErrInvalidParams"
               ELSE IF IsRescanUtxosFlagScaning THEN "ErrRescanFlagScaning"
               ELSE IF ~checkAmountValid(req.amount) THEN "ErrAmount"
               ELSE "nil"
    IN  IF err # "nil" THEN Fail(err)
        ELSE CASE req.type = 1 -> createPublic2PrivacyTx(req)
               [] req.type = 2 -> createPrivacy2PrivacyTx(req, queryOk)
               [] req.type = 3 -> createPrivacy2PublicTx(req, queryOk)
               [] OTHER -> Fail("ErrInvalidParams")

\* --------------------------------------------------------- the timer
\* The predicate procInvalidTxOnTimer hands to moveFTXO2UTXO: QueryTx of
\* the hash returned no error.
checker(txhash) == QueryTx(txhash)

RECURSIVE expireAllAny(_, _, _)
\* expireAll without the test of the expiry.
expireAllAny(S, recs, header) ==
    IF recs = {} THEN S
    ELSE LET ftxo == CHOOSE r \in recs : TRUE
         IN  expireAllAny(moveFTXO2UTXO(S, ftxo,
                                        [txhash \in DOMAIN txs |-> checker(txhash)]),
                          recs \ {ftxo}, header)

RECURSIVE expireAll(_, _, _)
\* The loop of procInvalidTxOnTimer over the records of the FTXO and of
\* the revert-FTXO keyspace.
expireAll(S, recs, header) ==
    IF recs = {} THEN S
    ELSE LET ftxo == CHOOSE r \in recs : TRUE
             S1   == IF ~IsExpire(ftxo, header.height, header.blockTime) THEN S
                     ELSE moveFTXO2UTXO(S, ftxo, [txhash \in DOMAIN txs |-> checker(txhash)])
         IN  expireAll(S1, recs \ {ftxo}, header)

\* The store procInvalidTxOnTimer leaves: nothing is done without a header.
timerStore ==
    IF lastHeader = NoHeader THEN Store
    ELSE expireAll(Store, ftxos \cup revertFtxos, lastHeader)

procInvalidTxOnTimer ==
    /\ SetStore(timerStore)
    /\ reply' = NoReply
    /\ UNCHANGED <<txs, mempool, blocks, lastHeader, rescanFlagDb,
                   rescanUTXOflag, rescan>>

\* -------------------------------------------------------- the rescan
RescanAddrs == {<<>>}
Idle == [pc |-> "idle", addrs |-> <<>>]

\* The addresses whose stored flag reqUtxosByAddr writes.
storeAddrs(addrs) == IF Len(addrs) = 0 THEN WalletAccStores ELSE addrs

\* The key pairs SelectCurrentWalletPrivacyTx tries, with the address each
\* is recorded under: in the loop over addrs every entry holds the address
\* of the one loop variable, which is the last address when the loop ends.
privacyInfoOf(addrs) ==
    IF Len(addrs) # 0
    THEN [k \in DOMAIN addrs |-> [Addr |-> addrs[Len(addrs)],
                                  PrivacyKeyPair |-> getPrivacykeyPair(addrs[k])]]
    ELSE [k \in DOMAIN WalletAccStores |->
            [Addr |-> WalletAccStores[k],
             PrivacyKeyPair |-> getPrivacykeyPair(WalletAccStores[k])]]

RECURSIVE scanOutputsAll(_, _, _, _, _, _)
\* scanOutputs without the comparison of the recovered key with the key
\* of the output.
scanOutputsAll(S, t, execOk, infos, k, processed) ==
    IF k > Len(infos) THEN S
    ELSE LET outs == Tx(t).output
             mine == DOMAIN outs.Keyoutput \ processed
             add[i \in 0..Len(outs.Keyoutput)] ==
                IF i = 0 THEN S
                ELSE IF i \notin mine \/ ~execOk \/ IsUTXOExist(add[i - 1], t, i - 1)
                     THEN add[i - 1]
                     ELSE setUTXO(add[i - 1], infos[k].Addr, t, i - 1,
                                  [tokenname |-> Tx(t).tokenname,
                                   amount |-> outs.Keyoutput[i].amount,
                                   txPublicKeyR |-> outs.RpubKeytx,
                                   onetimePublicKey |-> outs.Keyoutput[i].onetimepubkey,
                                   owner |-> infos[k].Addr,
                                   height |-> TxHeight(t)])
         IN  scanOutputsAll(add[Len(outs.Keyoutput)], t, execOk, infos, k + 1,
                            processed \cup mine)

RECURSIVE scanOutputs(_, _, _, _, _, _)
\* The loops of SelectCurrentWalletPrivacyTx over the key pairs (k) and
\* the outputs (i) of transaction t; processed holds the outputs matched.
scanOutputs(S, t, execOk, infos, k, processed) ==
    IF k > Len(infos) THEN S
    ELSE LET outs == Tx(t).output
             mine == {i \in DOMAIN outs.Keyoutput \ processed :
                        PubKey(RecoverOnetimePriKey(outs.RpubKeytx,
                                                    infos[k].PrivacyKeyPair, i - 1))
                            = outs.Keyoutput[i].onetimepubkey}
             add[i \in 0..Len(outs.Keyoutput)] ==
                IF i = 0 THEN S
                ELSE IF i \notin mine \/ ~execOk \/ IsUTXOExist(add[i - 1], t, i - 1)
                     THEN add[i - 1]
                     ELSE setUTXO(add[i - 1], infos[k].Addr, t, i - 1,
                                  [tokenname |-> Tx(t).tokenname,
                                   amount |-> outs.Keyoutput[i].amount,
                                   txPublicKeyR |-> outs.RpubKeytx,
                                   onetimePublicKey |-> outs.Keyoutput[i].onetimepubkey,
                                   owner |-> infos[k].Addr,
                                   height |-> TxHeight(t)])
         IN  scanOutputs(add[Len(outs.Keyoutput)], t, execOk, infos, k + 1,
                         processed \cup mine)

SelectCurrentWalletPrivacyTx(S, t, execOk, addrs) ==
    LET S1  == scanOutputs(S, t, execOk, privacyInfoOf(addrs), 1, {})
        ins == Tx(t).input
        utxoGlobalIndexs ==
            UNION {Range(ins[k].utxoGlobalIndex) : k \in DOMAIN ins}
    IN  IF utxoGlobalIndexs = {} THEN S1
        ELSE StoreScanPrivacyInputUTXO(S1, utxoGlobalIndexs)

\* The transactions of the privacy contract the chain returns, the newest
\* first, with their receipts: one page holds them all.
TxDetails ==
    [k \in 1..Len(blocks) + 1 |->
        IF k = Len(blocks) + 1 THEN [tx |-> 0, ok |-> TRUE]
        ELSE blocks[Len(blocks) + 1 - k]]

RECURSIVE GetPrivacyTxDetailByHashs(_, _, _)
GetPrivacyTxDetailByHashs(S, details, addrs) ==
    IF details = <<>> THEN S
    ELSE GetPrivacyTxDetailByHashs(
            SelectCurrentWalletPrivacyTx(S, Head(details).tx, Head(details).ok, addrs),
            Tail(details), addrs)

\* DeleteScanPrivacyInputUtxo: the observed inputs the wallet holds a
\* record of are moved to the spent keyspace in one call, under the owner,
\* token and transaction hash of the last of them; every observed input
\* is deleted.
DeleteScanPrivacyInputUtxo(S) ==
    LET utxoGlobalIndexs == GetScanPrivacyInputUTXO(S, MaxUtxosPerTime)
        matched == SelectSeq(utxoGlobalIndexs,
                             LAMBDA id : IsUTXOExist(S, id.txhash, id.outindex))
        last == S.utxoRec[matched[Len(matched)]]
        S1 == IF Len(matched) > 0
              THEN moveUTXO2STXO(S, last.owner, last.tokenname,
                                 matched[Len(matched)].txhash, Range(matched))
              ELSE S
    IN  [S1 EXCEPT !.scanInput = @ \ Range(utxoGlobalIndexs)]

\* The wallet is asked to rescan: the flag is set and the goroutine of
\* RescanReqUtxosByAddr starts.
RescanStart(addrs) ==
    /\ rescan.pc = "idle"
    /\ rescanUTXOflag' = "Scaning"
    /\ rescan' = [pc |-> "scan", addrs |-> addrs]
    /\ reply' = NoReply
    /\ UNCHANGED <<txs, mempool, blocks, lastHeader, storeVars>>

\* reqUtxosByAddr up to the end of its loop: the stored flags, and the
\* replay of the page the chain returns, if it returns one.
reqUtxosByAddrScan(queryOk) ==
    /\ rescan.pc = "scan"
    /\ rescanFlagDb' = [a \in Accounts |->
                          IF a \in Range(storeAddrs(rescan.addrs)) THEN "NoScan"
                          ELSE rescanFlagDb[a]]
    /\ IF queryOk
       THEN SetStore(GetPrivacyTxDetailByHashs(Store, TxDetails, rescan.addrs))
       ELSE UNCHANGED <<utxoRec, availIdx, ftxos, revertFtxos, stxos, scanInput>>
    /\ rescan' = [rescan EXCEPT !.pc = "scanned"]
    /\ reply' = NoReply
    /\ UNCHANGED <<txs, mempool, blocks, lastHeader, rescanUTXOflag>>

\* reqUtxosByAddr: atomic.StoreInt32(&wallet.rescanUTXOflag, UtxoFlagNoScan).
reqUtxosByAddrFlag ==
    /\ rescan.pc = "scanned"
    /\ rescanUTXOflag' = "NoScan"
    /\ rescan' = [rescan EXCEPT !.pc = "reconcile"]
    /\ reply' = NoReply
    /\ UNCHANGED <<txs, mempool, blocks, lastHeader, storeVars>>

\* reqUtxosByAddr to its end: DeleteScanPrivacyInputUtxo, the stored flags.
reqUtxosByAddrEnd ==
    /\ rescan.pc = "reconcile"
    /\ SetStore(DeleteScanPrivacyInputUtxo(Store))
    /\ rescanFlagDb' = [a \in Accounts |->
                          IF a \in Range(storeAddrs(rescan.addrs)) THEN "ScanEnd"
                          ELSE rescanFlagDb[a]]
    /\ rescan' = [rescan EXCEPT !.pc = "idle", !.addrs = <<>>]
    /\ reply' = NoReply
    /\ UNCHANGED <<txs, mempool, blocks, lastHeader, rescanUTXOflag>>

\* ---------------------------------------------------- the chain events
\* onAddPrivacyTxFromBlock and onDelPrivacyTxFromBlock call
\* updateWalletPrivacyAccountUTXO and updateWalletPrivacyTxDetail, whose
\* branches for a confirmed and for a reverted transaction are empty.
updateWalletPrivacyAccountUTXO(S, t, execOK, addDelType) == S
updateWalletPrivacyTxDetail(S, t, execOK, addDelType) == S

onAddPrivacyTxFromBlock(S, t, exeOK) ==
    updateWalletPrivacyTxDetail(
        updateWalletPrivacyAccountUTXO(S, t, exeOK, "AddTx"), t, exeOK, "AddTx")

onDelPrivacyTxFromBlock(S, t, exeOK) ==
    updateWalletPrivacyTxDetail(
        updateWalletPrivacyAccountUTXO(S, t, exeOK, "DelTx"), t, exeOK, "DelTx")

HeaderAt(n) == [height |-> BaseHeight + n, blockTime |-> BlockTimeAt(BaseHeight + n)]

\* The receipt of transaction t in a block added now: ExecOk unless the
\* chain's check rejects it.
ExecOk(t) == ChainAccepts(Tx(t), blocks)

\* A block with transaction t of the mempool is added.
AddBlock(t) ==
    /\ Len(blocks) < MaxBlocks
    /\ t \in mempool
    /\ blocks' = Append(blocks, [tx |-> t, ok |-> ExecOk(t)])
    /\ mempool' = mempool \ {t}
    /\ lastHeader' = HeaderAt(Len(blocks) + 1)
    /\ SetStore(onAddPrivacyTxFromBlock(Store, t, ExecOk(t)))
    /\ reply' = NoReply
    /\ UNCHANGED <<txs, rescanFlagDb, rescanUTXOflag, rescan>>

\* The head block is reverted; its transaction is back in the mempool.
DelBlock ==
    /\ Len(blocks) > 0
    /\ LET b == blocks[Len(blocks)]
       IN  /\ blocks' = SubSeq(blocks, 1, Len(blocks) - 1)
           /\ mempool' = mempool \cup {b.tx}
           /\ SetStore(onDelPrivacyTxFromBlock(Store, b.tx, b.ok))
    /\ lastHeader' = HeaderAt(Len(blocks) - 1)
    /\ reply' = NoReply
    /\ UNCHANGED <<txs, rescanFlagDb, rescanUTXOflag, rescan>>

\* The holder of a transaction built by procCreateTransaction signs it
\* (signTxWithPrivacy) and sends it; the chain's check admits it.
SubmitDeferred(t) ==
    /\ t \in DOMAIN txs
    /\ txs[t].mode = "deferred"
    /\ t \notin mempool \cup InBlocks(blocks)
    /\ ChainAccepts(txs[t], blocks)
    /\ mempool' = mempool \cup {t}
    /\ reply' = NoReply
    /\ UNCHANGED <<txs, blocks, lastHeader, storeVars, rescanUTXOflag, rescan>>

\* ------------------------------------------------- the specification
InitWallet ==
    /\ txs = <<>>
    /\ mempool = {}
    /\ blocks = <<>>
    /\ lastHeader = NoHeader
    /\ utxoRec = <<>>
    /\ availIdx = {}
    /\ ftxos = {}
    /\ revertFtxos = {}
    /\ stxos = {}
    /\ scanInput = {}
    /\ rescanFlagDb = [a \in Accounts |-> "NoScan"]
    /\ rescanUTXOflag = "NoScan"
    /\ rescan = Idle
    /\ reply = NoReply
    /\ mtx = "none"
    /\ pc = [t \in Threads |-> "idle"]
    /\ client = NoClient

Init ==
    /\ InitWallet
    /\ fnArgs = NoArgs
    /\ fnResult = NoResult

\* The caller takes the reply of its call.
Deliver ==
    /\ reply # NoReply
    /\ reply' = NoReply
    /\ UNCHANGED <<txs, mempool, blocks, lastHeader, storeVars, rescanUTXOflag,
                   rescan>>
    /\ NoApply

\* The caller makes one call at a time and takes its reply before anything
\* else happens.
Ready == reply = NoReply

Next ==
    \/ Deliver
    \/ Ready /\ NoApply /\ \E c \in ReqPub2Pri :
          procPublic2PrivacyV2(c[1], c[2] # "status", c[2] # "send")
    \/ Ready /\ NoApply /\ \E c \in ReqPri2Pri :
          procPrivacy2PrivacyV2(c[1], c[2] # "status", c[2] # "query", c[2] # "send")
    \/ Ready /\ NoApply /\ \E c \in ReqPri2Pub :
          procPrivacy2PublicV2(c[1], c[2] # "status", c[2] # "query", c[2] # "send")
    \/ Ready /\ NoApply /\ \E c \in ReqCreateUTXOs :
          procCreateUTXOs(c[1], c[2] # "status", c[2] # "send")
    \/ Ready /\ NoApply /\ \E c \in ReqCreateTransaction :
          procCreateTransaction(c[1], c[2] # "status", c[2] # "query")
    \/ Ready /\ NoApply /\ \E t \in DOMAIN txs : SubmitDeferred(t)
    \/ Ready /\ NoApply /\ procInvalidTxOnTimer
    \/ Ready /\ NoApply /\ \E addrs \in RescanAddrs : RescanStart(addrs)
    \/ Ready /\ NoApply /\ \E queryOk \in BOOLEAN : reqUtxosByAddrScan(queryOk)
    \/ Ready /\ NoApply /\ reqUtxosByAddrFlag
    \/ Ready /\ NoApply /\ reqUtxosByAddrEnd
    \/ Ready /\ NoApply /\ \E t \in mempool : AddBlock(t)
    \/ Ready /\ NoApply /\ DelBlock

Spec == Init /\ [][Next]_vars

\* ------------------------------------------------- the states of a UTXO
\* The outputs of each keyspace of the store.
AvailableIds == {k.id : k \in availIdx}
FrozenIds == UNION {r.utxos : r \in ftxos}
SpentIds == UNION {r.utxos : r \in stxos}
RevertIds == UNION {r.utxos : r \in revertFtxos}

StatesOf(id) ==
    (IF id \in AvailableIds THEN {"available"} ELSE {}) \cup
    (IF id \in FrozenIds THEN {"FTXO"} ELSE {}) \cup
    (IF id \in SpentIds THEN {"STXO"} ELSE {}) \cup
    (IF id \in RevertIds THEN {"revert-FTXO"} ELSE {})

\* The outputs a transaction built by the wallet spends: the ring member
\* at the real position of each input.
RealInputs(tx) ==
    {tx.signParam.utxobasics[k][tx.signParam.realKeyInputs[k].realinputkey + 1]
        .utxoGlobalIndex : k \in DOMAIN tx.signParam.realKeyInputs}

\* The transactions a step builds.
Built == DOMAIN txs' \ DOMAIN txs

\* ---------------------------------------------------------------- C1
\* C1: after any sequence of builds, timer ticks, rescans and
\* reconciliations every output the wallet knows is in exactly one of the
\* states available, FTXO, STXO, revert-FTXO.
C1_ExactlyOneState ==
    \A id \in DOMAIN utxoRec : Cardinality(StatesOf(id)) = 1

\* ---------------------------------------------------------------- C2
\* C2: a deferred S->S or S->P build that returns a transaction took its
\* inputs from the available outputs that no build held, and when it has
\* returned they are frozen under its hash and not available, so that no
\* later build can select them; no two builds hold the same output.
C2_DeferredBuildFreezes ==
    [][\A n \in Built :
          (txs'[n].mode = "deferred" /\ txs'[n].input # <<>>) =>
             LET ins == RealInputs(txs'[n])
             IN  /\ ins # {}
                 /\ ins \subseteq AvailableIds
                 /\ ins \cap FrozenIds = {}
                 /\ ins \cap AvailableIds' = {}
                 /\ \E r \in ftxos' : r.txhash = n /\ r.utxos = ins
                 /\ \A r, q \in ftxos' : r # q => r.utxos \cap q.utxos = {}]_vars

\* C2: two builds, one of them deferred, each hold an output of their own.
C2_Witness ==
    \E r, q \in ftxos :
        /\ r # q
        /\ txs[r.txhash].mode = "deferred"
        /\ r.utxos # {} /\ q.utxos # {}
        /\ r.utxos \cap AvailableIds = {}

\* ---------------------------------------------------------------- C3
\* The errors of a call whose SendTx failed.
SendErrors == {"ErrSend", "ErrChainRefuses"}

\* C3: a call that returns the error of SendTx has written no FTXO, has
\* left the available outputs as they were and has submitted nothing; and
\* the FTXO record a direct build writes is that of the transaction the
\* call returns, which is in the mempool.
C3_FrozenOnlyAfterSend ==
    [][/\ (reply = NoReply /\ reply'.err \in SendErrors) =>
             UNCHANGED <<ftxos, availIdx, mempool, txs>>
       /\ \A r \in ftxos' \ ftxos :
             /\ r.txhash \in Built
             /\ txs'[r.txhash].mode = "direct" =>
                   /\ r.txhash \in mempool'
                   /\ reply' = [err |-> "nil", tx |-> r.txhash]]_vars

\* C3: the chain refused the transaction of a direct private build, and
\* the outputs of the wallet are all available; no output is frozen.
C3_Witness ==
    /\ reply.err = "ErrChainRefuses"
    /\ AvailableIds # {}
    /\ ftxos = {}

\* ---------------------------------------------------------- C4 and C5
\* The entries of the FTXO and of the revert-FTXO keyspace that are past
\* their expiry at the header the timer reads.
Expired ==
    {r \in ftxos \cup revertFtxos :
        /\ lastHeader # NoHeader
        /\ IsExpire(r, lastHeader.height, lastHeader.blockTime)}

\* The entry r is frozen in the store S, or its outputs are available.
FrozenIn(S, r) ==
    /\ r \in S.ftxos \cup S.revertFtxos
    /\ r.utxos \cap {k.id : k \in S.availIdx} = {}
ReturnedIn(S, r) ==
    /\ r \notin S.ftxos \cup S.revertFtxos
    /\ r.utxos \subseteq {k.id : k \in S.availIdx}

\* C4: when the timer runs, the outputs of an expired entry whose
\* transaction the chain does not know are available again and the entry
\* is deleted.
C4_TimerReturnsUnknown ==
    \A r \in Expired : ~QueryTx(r.txhash) => ReturnedIn(timerStore, r)

Called == reply = NoReply /\ reply' # NoReply

\* C6: while the rescan flag is Scaning, a call of an entry point that
\* passes the wallet status check returns the error of the rescan, sends
\* no transaction and freezes no output.
C6_ScanningRefusesBuilds ==
    [][(IsRescanUtxosFlagScaning /\ Called /\ reply'.err # "ErrWalletNotReady") =>
          /\ reply'.err = "ErrRescanFlagScaning"
          /\ UNCHANGED <<txs, mempool, ftxos, availIdx>>]_vars

\* ---------------------------------------------------------------- C7
\* The transactions the wallet assembled with inputs of its own; one whose
\* receipt in a block is ExecOk is confirmed as spending them.
Assembled == {t \in DOMAIN txs : txs[t].input # <<>>}
PastExpiry(t) ==
    /\ lastHeader # NoHeader
    /\ IsExpire([expire |-> txs[t].expire], lastHeader.height, lastHeader.blockTime)
HasFTXO(t) == \E r \in ftxos : r.txhash = t

\* C7: in every state an FTXO record is present for a transaction if and
\* only if it was assembled and is neither confirmed as spending nor
\* expired: a record is of an assembled transaction no block confirmed,
\* and an assembled transaction that is neither confirmed nor past its
\* expiry has its record.
C7_FtxoIffPending ==
    /\ \A r \in ftxos :
          r.txhash \in Assembled /\ r.txhash \notin OkInBlocks(blocks)
    /\ \A t \in Assembled :
          (t \notin OkInBlocks(blocks) /\ ~PastExpiry(t)) => HasFTXO(t)

\* ------------------------------------------------------ C8, C9 and C10
\* A step adds a block, or reverts the head block.
BlockAdded == Len(blocks') = Len(blocks) + 1
BlockReverted == Len(blocks') = Len(blocks) - 1

\* The outputs of transaction t that match a key pair of the wallet.
OwnOutputs(t) ==
    {id \in OutputIds(t) :
        \E a \in Accounts :
            PubKey(RecoverOnetimePriKey(Tx(t).output.RpubKeytx,
                                        getPrivacykeyPair(a), id.outindex))
                = OutputOf(id).onetimepubkey}

\* C8: when a block is added, every output of its transaction, if the
\* receipt is ExecOk, that matches a key pair of the wallet and is not yet
\* recorded is recorded and available afterwards.
C8_BlockAddedPersistsOutputs ==
    [][BlockAdded =>
          LET b == blocks'[Len(blocks')]
          IN  b.ok =>
                \A id \in OwnOutputs(b.tx) \ DOMAIN utxoRec :
                    id \in DOMAIN utxoRec' /\ id \in AvailableIds']_vars

\* C9: when a block with the transaction that froze outputs is added with
\* the receipt ExecOk, its FTXO record is gone and the outputs are in the
\* STXO keyspace.
C9_ConfirmedMovesToSTXO ==
    [][BlockAdded =>
          LET b == blocks'[Len(blocks')]
          IN  b.ok =>
                \A r \in ftxos :
                    r.txhash = b.tx =>
                        /\ r \notin ftxos'
                        /\ r.utxos \subseteq SpentIds'
                        /\ r.utxos \cap FrozenIds' = {}]_vars

\* C10: when the block of a confirmed S->S transaction is reverted, the
\* inputs of the transaction that were in the STXO keyspace are in the
\* revert-FTXO keyspace; and when the block is added again, the inputs
\* that were in the revert-FTXO keyspace are in the STXO keyspace.
C10_RevertRoundTrip ==
    [][/\ BlockReverted =>
             LET b   == blocks[Len(blocks)]
                 ins == RealInputs(Tx(b.tx)) \cap SpentIds
             IN  (b.ok /\ Tx(b.tx).ty = "Privacy2Privacy") =>
                    ins \subseteq RevertIds' /\ ins \cap SpentIds' = {}
       /\ BlockAdded =>
             LET b   == blocks'[Len(blocks')]
                 ins == RealInputs(Tx(b.tx)) \cap RevertIds
             IN  (b.ok /\ Tx(b.tx).ty = "Privacy2Privacy") =>
                    ins \subseteq SpentIds' /\ ins \cap RevertIds' = {}]_vars


\* ---------------------------------------------------------------------
\* decomposeAmount2digits applied to drawn arguments
\* ---------------------------------------------------------------------

MaxAmount == 1200

\* 62387455827, the amount of the example above decomposeAmount2digits
ExampleAmount == [hi |-> 623, lo |-> 87455827]

DecomposeAmounts ==
    {I64(n) : n \in -1 .. MaxAmount}
        \cup {I64(k * Coin) : k \in 1 .. 5}
        \cup {I64(Coin - PrivacyTxFee), I64(Coin + 1), I64(999999999)}
        \cup {ExampleAmount, [hi |-> 99999, lo |-> 99999999]}

DecomposeThresholds ==
    {I64(t) : t \in {0, 1, 2, 7, 10, 15, 100, 1000, BTYDustThreshold}}

DecomposeArgs ==
    {[fn |-> "decomposeAmount2digits", amount |-> a, dust_threshold |-> t] :
        a \in DecomposeAmounts, t \in DecomposeThresholds}

InitDecompose ==
    /\ InitWallet
    /\ fnArgs \in DecomposeArgs
    /\ fnResult = NoResult

ApplyDecompose ==
    /\ fnArgs.fn = "decomposeAmount2digits"
    /\ fnResult = NoResult
    /\ fnResult' = [fn  |-> "decomposeAmount2digits",
                    res |-> decomposeAmount2digits(fnArgs.amount,
                                                   fnArgs.dust_threshold)]
    /\ UNCHANGED <<txs, mempool, blocks, lastHeader, utxoRec, availIdx, ftxos,
                   revertFtxos, stxos, scanInput, rescanFlagDb, rescanUTXOflag,
                   rescan, reply, fnArgs, mtx, pc, client>>

NextDecompose == ApplyDecompose

SpecDecompose == InitDecompose /\ [][NextDecompose]_vars

Decomposed == fnResult.fn = "decomposeAmount2digits"

\* C13: for every amount a >= 0 and every threshold t > 0 the elements of
\* decomposeAmount2digits(a, t) sum to a.
C13_DecomposeSums ==
    (/\ Decomposed
     /\ ~I64Less(fnArgs.amount, I64(0))
     /\ I64Less(I64(0), fnArgs.dust_threshold))
        => I64Sum(fnResult.res) = fnArgs.amount

\* C13 witness: an amount with a dust part and digits 3..9 above it was
\* decomposed into several elements.
C13_Witness ==
    /\ Decomposed
    /\ fnArgs.amount = ExampleAmount
    /\ fnArgs.dust_threshold = I64(BTYDustThreshold)
    /\ Len(fnResult.res) > 6

\* the digit d of an element d * 10^k, and its decade k
RECURSIVE Mantissa(_)
Mantissa(e) ==
    IF e # I64(0) /\ I64Mod10(e) = 0 THEN Mantissa(I64Div10(e)) ELSE e

RECURSIVE Decade(_)
Decade(e) == IF I64Less(e, I64(10)) THEN 0 ELSE 1 + Decade(I64Div10(e))

IsNature(e) == Mantissa(e) \in {I64(1), I64(2), I64(5)}

RECURSIVE LowPart(_, _)
LowPart(a, j) ==
    IF j = 0 THEN I64(0)
    ELSE I64Add(I64Mul(LowPart(I64Div10(a), j - 1), 10), I64(I64Mod10(a)))

\* the largest low part of the amount that stays below the threshold
RECURSIVE DustOf(_, _, _)
DustOf(a, t, j) ==
    IF j > Decade(a) \/ ~I64Less(LowPart(a, j + 1), t)
    THEN LowPart(a, j)
    ELSE DustOf(a, t, j + 1)

\* C15: the order of a decomposition is stable: the dust chunk, if there
\* is one, is emitted exactly once and is the first element; the other
\* elements are denominations above it in ascending decade order.
C15_DustFirstThenAscending ==
    Decomposed =>
        IF ~I64Less(I64(0), fnArgs.amount) THEN fnResult.res = <<>>
        ELSE LET d    == DustOf(fnArgs.amount, fnArgs.dust_threshold, 0)
                 r    == fnResult.res
                 rest == IF d # I64(0) THEN Tail(r) ELSE r
             IN  /\ d # I64(0) => (r # <<>> /\ Head(r) = d)
                 /\ \A i \in 1 .. Len(rest) :
                        /\ IsNature(rest[i])
                        /\ I64Less(d, rest[i])
                        /\ i > 1 => Decade(rest[i - 1]) <= Decade(rest[i])

\* C15 witness: a decomposition whose dust chunk gathers two digits and is
\* followed by denominations of two higher decades.
C15_Witness ==
    /\ Decomposed
    /\ fnArgs.amount = I64(1134)
    /\ fnArgs.dust_threshold = I64(100)
    /\ fnResult.res = <<I64(34), I64(100), I64(1000)>>

IsExample ==
    /\ Decomposed
    /\ fnArgs.amount = ExampleAmount
    /\ fnArgs.dust_threshold = I64(BTYDustThreshold)

FundUnits == {Coin, 3 * Coin}
FundCounts == {1, 2}

FundTx(unit, count) ==
    [ty |-> "Public2Privacy", tokenname |-> BTY, amount |-> unit * count,
     from |-> "pub", input |-> <<>>,
     output |-> genCustomOuts("A", unit, count, 1),
     expire |-> 0, mode |-> "direct",
     signParam |-> NoSignParam]

EmptyStore ==
    [utxoRec |-> <<>>, availIdx |-> {}, ftxos |-> {}, revertFtxos |-> {},
     stxos |-> {}, scanInput |-> {}]

\* The wallet after the block of such a transaction was added above the
\* initial head and a rescan of all accounts has replayed the chain.
InitBuild ==
    /\ \E unit \in FundUnits, count \in FundCounts :
          txs = <<FundTx(unit, count)>>
    /\ mempool = {}
    /\ blocks = <<[tx |-> 1, ok |-> TRUE]>>
    /\ lastHeader = HeaderAt(1)
    /\ LET S == DeleteScanPrivacyInputUtxo(
                    GetPrivacyTxDetailByHashs(EmptyStore, TxDetails, <<>>))
       IN  /\ utxoRec = S.utxoRec
           /\ availIdx = S.availIdx
           /\ ftxos = S.ftxos
           /\ revertFtxos = S.revertFtxos
           /\ stxos = S.stxos
           /\ scanInput = S.scanInput
    /\ rescanFlagDb = [a \in Accounts |-> "ScanEnd"]
    /\ rescanUTXOflag = "NoScan"
    /\ rescan = Idle
    /\ reply = NoReply
    /\ fnArgs = NoArgs
    /\ fnResult = NoResult
    /\ mtx = "none"
    /\ pc = [t \in Threads |-> "idle"]
    /\ client = NoClient

\* The amounts of the spends: with the fee they ask selectUTXO for 2, 4, 5
\* and 7 Coin.
BuildAmounts == {Coin, 3 * Coin, 4 * Coin, 6 * Coin}

NextBuild ==
    \/ Deliver
    \/ Ready /\ NoApply /\ \E amount \in BuildAmounts, sendOk \in BOOLEAN :
          procPrivacy2PrivacyV2(Req(0, amount, ExternalKeys, 0, 0),
                                TRUE, TRUE, sendOk)
    \/ Ready /\ NoApply /\ \E amount \in BuildAmounts, sendOk \in BOOLEAN :
          procPrivacy2PublicV2(Req(0, amount, ExternalKeys, 0, 0),
                               TRUE, TRUE, sendOk)
    \/ Ready /\ NoApply /\ \E amount \in BuildAmounts, ty \in {1, 2, 3} :
          procCreateTransaction(Req(ty, amount, ExternalKeys, 0, 0), TRUE, TRUE)
    \/ Ready /\ NoApply /\ \E amount \in BuildAmounts, sendOk \in BOOLEAN :
          procPublic2PrivacyV2(Req(0, amount, ExternalKeys, 0, 0), TRUE, sendOk)
    \/ Ready /\ NoApply /\ DelBlock

SpecBuild == InitBuild /\ [][NextBuild]_vars

\* ---------------------------------------------------------------------
\* conservation of the amounts of a private spend
\* ---------------------------------------------------------------------

OutputTotal(output) ==
    SumSeq([k \in DOMAIN output.Keyoutput |-> output.Keyoutput[k].amount])

\* C11: in every Privacy2Privacy transaction the wallet built, directly or
\* deferred, the amounts of the selected inputs sum to the amounts of the
\* privacy outputs plus the fee; in every Privacy2Public transaction they
\* sum to the amounts of the privacy outputs (the change) plus the public
\* amount plus the fee.
C11_Conservation ==
    \A n \in DOMAIN txs :
        /\ txs[n].ty = "Privacy2Privacy" =>
              InputTotal(txs[n].input)
                  = OutputTotal(txs[n].output) + PrivacyTxFee
        /\ txs[n].ty = "Privacy2Public" =>
              InputTotal(txs[n].input)
                  = OutputTotal(txs[n].output) + txs[n].amount + PrivacyTxFee

\* C11 witness: a Privacy2Public transaction was built from three inputs
\* that cover more than the amount and the fee, so it has change outputs.
C11_Witness ==
    \E n \in DOMAIN txs :
        /\ txs[n].ty = "Privacy2Public"
        /\ Len(txs[n].input) = 3
        /\ OutputTotal(txs[n].output) > 0

\* C11 as stated: in every Privacy2Privacy and every Privacy2Public
\* transaction the amounts of the selected inputs sum to the amounts of
\* the privacy outputs plus the fee.
C11_AsStated ==
    \A n \in DOMAIN txs :
        txs[n].ty \in {"Privacy2Privacy", "Privacy2Public"} =>
            InputTotal(txs[n].input)
                = OutputTotal(txs[n].output) + PrivacyTxFee

\* ---------------------------------------------------------------------
\* selectUTXO
\* ---------------------------------------------------------------------

SelectTargets == {k * Coin : k \in 1 .. 8} \cup {1, Coin + 1}

\* The amounts of the available outputs of (token, owner) whose height is
\* not above the current height, summed.
UsableTotal(token, owner) ==
    LET wutxos == getPrivacyTokenUTXOs(token, owner)
        usable == SelectSeq(wutxos, LAMBDA w : w.height <= Height)
    IN  SumSeq([k \in DOMAIN usable |-> usable[k].outinfo.amount])

IsAvailable(token, owner, id) ==
    \E a \in availIdx : a.id = id /\ a.tokenname = token /\ a.owner = owner

OutsKeys == Accounts \cup {ExternalKeys}
OutsAmounts == {0, Coin, 3 * Coin, 4 * Coin}
OutsSelected == {0, Coin, 2 * Coin, 4 * Coin, 5 * Coin, 5 * Coin + 455827}
OutsFees == {0, 1000000, PrivacyTxFee}
OutsCounts == 0 .. 3

OutsArgs ==
    {[fn |-> "generateOuts", keysTo |-> kt, keysChangeTo |-> kc,
      transAmount |-> ta, selectedAmount |-> sa, fee |-> f, r |-> r] :
        kt \in OutsKeys, kc \in Accounts, ta \in OutsAmounts,
        sa \in OutsSelected, f \in OutsFees, r \in {1, 2}}
    \cup
    {[fn |-> "genCustomOuts", keysTo |-> kt, transAmount |-> ta,
      count |-> c, r |-> r] :
        kt \in OutsKeys, ta \in OutsAmounts \ {0}, c \in OutsCounts, r \in {1, 2}}

InitOuts ==
    /\ InitWallet
    /\ fnArgs \in OutsArgs
    /\ fnResult = NoResult

ApplyGenerateOuts ==
    /\ fnArgs.fn = "generateOuts"
    /\ fnResult = NoResult
    /\ fnResult' = [fn  |-> "generateOuts",
                    res |-> generateOuts(fnArgs.keysTo, fnArgs.keysChangeTo,
                                         fnArgs.transAmount, fnArgs.selectedAmount,
                                         fnArgs.fee, fnArgs.r)]
    /\ UNCHANGED <<txs, mempool, blocks, lastHeader, utxoRec, availIdx, ftxos,
                   revertFtxos, stxos, scanInput, rescanFlagDb, rescanUTXOflag,
                   rescan, reply, fnArgs, mtx, pc, client>>

ApplyGenCustomOuts ==
    /\ fnArgs.fn = "genCustomOuts"
    /\ fnResult = NoResult
    /\ fnResult' = [fn  |-> "genCustomOuts",
                    res |-> genCustomOuts(fnArgs.keysTo, fnArgs.transAmount,
                                          fnArgs.count, fnArgs.r)]
    /\ UNCHANGED <<txs, mempool, blocks, lastHeader, utxoRec, availIdx, ftxos,
                   revertFtxos, stxos, scanInput, rescanFlagDb, rescanUTXOflag,
                   rescan, reply, fnArgs, mtx, pc, client>>

NextOuts == ApplyGenerateOuts \/ ApplyGenCustomOuts

SpecOuts == InitOuts /\ [][NextOuts]_vars

OutputAmounts(output) ==
    [k \in DOMAIN output.Keyoutput |-> output.Keyoutput[k].amount]

\* generateOuts was applied to a transfer of 4 Coin from selected outputs
\* of 5 Coin in all (3 Coin and 2 Coin) with the fee 10^6.
IsSpendOf4 ==
    /\ fnResult.fn = "generateOuts"
    /\ fnArgs.transAmount = 4 * Coin
    /\ fnArgs.selectedAmount = 5 * Coin
    /\ fnArgs.fee = 1000000

\* C17: a Privacy2Privacy build with the selected outputs 3*10^8 and
\* 2*10^8, the amount 4*10^8 and the fee 10^6 has the change 99000000, and
\* its output amounts are the terms of the transfer, 200000000, 200000000,
\* followed by the terms of the change: 5000000, 2000000, 2000000,
\* 50000000, 20000000, 20000000.
C17_SpendOutputs ==
    IsSpendOf4 =>
        /\ fnArgs.selectedAmount - fnArgs.transAmount - fnArgs.fee = 99000000
        /\ OutputAmounts(fnResult.res) =
              <<200000000, 200000000,
                5000000, 2000000, 2000000, 50000000, 20000000, 20000000>>

\* C17 witness: that build happened, with the transfer outputs for another
\* wallet and the change outputs for account A.
C17_Witness ==
    /\ IsSpendOf4
    /\ fnArgs.keysTo = ExternalKeys
    /\ fnArgs.keysChangeTo = "A"
    /\ Len(fnResult.res.Keyoutput) = 8

\* C17 as stated: the change 99000000 is one output, and the output
\* amounts are 100000000, 200000000, 200000000, 99000000.
C17_AsStated ==
    IsSpendOf4 =>
        /\ decomposeInt(99000000, BTYDustThreshold) = <<99000000>>
        /\ OutputAmounts(fnResult.res) =
              <<100000000, 200000000, 200000000, 99000000>>

\* The key pairs whose owner the scanner finds output k of a PrivacyOutput
\* to belong to: it derives with the position of the output.
ScannerMatches(output, k) ==
    {keys \in OutsKeys :
        PubKey(RecoverOnetimePriKey(output.RpubKeytx, keys, k - 1))
            = output.Keyoutput[k].onetimepubkey}

\* C18: in every PrivacyOutput of generateOuts and of genCustomOuts all
\* outputs are derived from the one ephemeral key of RpubKeytx; the
\* transfer outputs (the terms of the amount, for the recipient) come
\* first and the change outputs (the terms of the change, for the sender)
\* second; the derivation index of every output is its position in
\* Keyoutput; and the scanner, which derives with that position, finds
\* every output to belong to the key pair it was built for and to no other.
C18_IndexIsPosition ==
    /\ fnResult.fn = "generateOuts" =>
          LET out    == fnResult.res
              digits == decomposeInt(fnArgs.transAmount, BTYDustThreshold)
              chg    == fnArgs.selectedAmount - fnArgs.transAmount - fnArgs.fee
              change == IF chg > 0 THEN decomposeInt(chg, BTYDustThreshold)
                        ELSE <<>>
              n      == Len(digits)
          IN  /\ out.RpubKeytx = fnArgs.r
              /\ OutputAmounts(out) = digits \o change
              /\ \A k \in DOMAIN out.Keyoutput :
                    LET keys == IF k <= n THEN fnArgs.keysTo
                                ELSE fnArgs.keysChangeTo
                    IN  /\ out.Keyoutput[k].onetimepubkey
                              = GenerateOneTimeAddr(keys, out.RpubKeytx, k - 1)
                        /\ ScannerMatches(out, k) = {keys}
    /\ fnResult.fn = "genCustomOuts" =>
          LET out == fnResult.res
          IN  /\ out.RpubKeytx = fnArgs.r
              /\ OutputAmounts(out) = [k \in 1 .. fnArgs.count |-> fnArgs.transAmount]
              /\ \A k \in DOMAIN out.Keyoutput :
                    /\ out.Keyoutput[k].onetimepubkey
                          = GenerateOneTimeAddr(fnArgs.keysTo, out.RpubKeytx, k - 1)
                    /\ ScannerMatches(out, k) = {fnArgs.keysTo}

\* C18 witness: generateOuts built two transfer outputs for account B and
\* change outputs for account A, the first of them at position 2.
C18_Witness ==
    /\ fnResult.fn = "generateOuts"
    /\ fnArgs.keysTo = "B"
    /\ fnArgs.keysChangeTo = "A"
    /\ fnArgs.transAmount = 3 * Coin
    /\ Len(fnResult.res.Keyoutput) > 2
    /\ fnResult.res.Keyoutput[3].onetimepubkey
          = GenerateOneTimeAddr("A", fnArgs.r, 2)

\* ---------------------------------------------------------------------
\* buildInput applied to drawn responses of the chain
\* ---------------------------------------------------------------------

MaxMix == 5
MaxDecoys == 4

\* The output buildInput spends: the first output of GenesisTx, of account A.
RealUtxo ==
    [amount |-> GenesisTx.output.Keyoutput[1].amount,
     utxoGlobalIndex |-> UTXOGlobalIndex(0, 0),
     txPublicKeyR |-> GenesisTx.output.RpubKeytx,
     onetimePublicKey |-> GenesisTx.output.Keyoutput[1].onetimepubkey]

\* The outputs of that amount the chain can return: the real output, the
\* other output of GenesisTx and two outputs of another wallet.
ChainUtxos ==
    {[utxoGlobalIndex |-> UTXOGlobalIndex(0, 0),
      onetimepubkey |-> RealUtxo.onetimePublicKey],
     [utxoGlobalIndex |-> UTXOGlobalIndex(0, 1),
      onetimepubkey |-> GenesisTx.output.Keyoutput[2].onetimepubkey]}
    \cup {[utxoGlobalIndex |-> UTXOGlobalIndex(3, k),
           onetimepubkey |-> GenerateOneTimeAddr(ExternalKeys, 3, k)] :
              k \in {0, 1}}

DecoyLists == UNION {[1 .. n -> ChainUtxos] : n \in 0 .. MaxDecoys}

\* The responses to the query for the amount of RealUtxo: one entry, of
\* that amount or of another.
Responses ==
    {[nil |-> FALSE,
      UtxoIndex4Amount |-> <<[amount |-> a, utxos |-> l]>>] :
        a \in {RealUtxo.amount, RealUtxo.amount + Coin}, l \in DecoyLists}

\* The second output of GenesisTx, spent together with the first.
RealUtxo2 ==
    [amount |-> GenesisTx.output.Keyoutput[2].amount,
     utxoGlobalIndex |-> UTXOGlobalIndex(0, 1),
     txPublicKeyR |-> GenesisTx.output.RpubKeytx,
     onetimePublicKey |-> GenesisTx.output.Keyoutput[2].onetimepubkey]

\* The responses to the query for the amounts of both: two entries, each
\* with at most one output.
Responses2 ==
    {[nil |-> FALSE,
      UtxoIndex4Amount |-> <<[amount |-> RealUtxo.amount, utxos |-> l1],
                             [amount |-> RealUtxo2.amount, utxos |-> l2]>>] :
        l1, l2 \in {l \in DecoyLists : Len(l) <= 1}}

\* The arguments of buildInput after selectUTXO: res is what the chain
\* answers if it is asked for the outputs to mix with.
\* The mix counts below zero of a request.
NegativeMix == {-1, -2}

RingArgs ==
    {[fn |-> "buildInput", mixcount |-> m, selectedUtxo |-> <<RealUtxo>>,
      res |-> r] : m \in 1 .. MaxMix, r \in Responses}
    \cup {[fn |-> "buildInput", mixcount |-> m,
           selectedUtxo |-> <<RealUtxo, RealUtxo2>>, res |-> r] :
              m \in 1 .. MaxMix, r \in Responses2}
    \cup {[fn |-> "buildInput", mixcount |-> 0, selectedUtxo |-> <<RealUtxo>>,
           res |-> r] :
              r \in {x \in Responses : Len(x.UtxoIndex4Amount[1].utxos) <= 2}}
    \cup {[fn |-> "buildInput", mixcount |-> 0,
           selectedUtxo |-> <<RealUtxo, RealUtxo2>>, res |-> r] :
              r \in Responses2}
    \cup {[fn |-> "buildInput", mixcount |-> m, selectedUtxo |-> <<RealUtxo>>,
           res |-> NilResponse] : m \in 1 .. MaxMix}
    \cup {[fn |-> "buildInput", mixcount |-> m, selectedUtxo |-> sel,
           res |-> NilResponse] :
              m \in NegativeMix, sel \in {<<RealUtxo>>, <<RealUtxo, RealUtxo2>>}}

InitRing ==
    /\ InitWallet
    /\ fnArgs \in RingArgs
    /\ fnResult = NoResult

\* buildInput with the chain always asked, whatever mixcount is.
queryAlways(mixcount, answer) == answer

\* resUTXOGlobalIndex: the chain is asked when mixcount > 0 only.
queryResult(mixcount, answer) == IF mixcount > 0 THEN answer ELSE NilResponse

\* What buildInput returns when it returns no PrivacyInput.
NoInput ==
    [privacyInput |-> <<>>, utxosInKeyInput |-> <<>>, realkeyInputSlice |-> <<>>,
     selectedUtxo |-> <<>>]

\* buildInput after selectUTXO: it returns without a PrivacyInput when the
\* chain answered the query with no response, it panics at the slice
\* expression of its first input, or it returns the inputs it built.
ApplyBuildInput ==
    /\ fnArgs.fn = "buildInput"
    /\ fnResult = NoResult
    /\ LET res == queryResult(fnArgs.mixcount, fnArgs.res)
           sel == sortSelected(fnArgs.selectedUtxo)
       IN  IF fnArgs.mixcount > 0 /\ res.nil
           THEN fnResult' = [fn |-> "buildInput", outcome |-> "returned",
                             nil |-> TRUE, err |-> "nil", res |-> NoInput]
           ELSE IF \E i \in DOMAIN sel :
                      slicePanics(i, sel[i], sortResponse(res), fnArgs.mixcount)
           THEN fnResult' = [fn |-> "buildInput", outcome |-> "panic",
                             nil |-> TRUE, err |-> "nil", res |-> NoInput]
           ELSE \E perms \in permChoices(fnArgs.mixcount, fnArgs.selectedUtxo, res) :
                  fnResult' = [fn  |-> "buildInput", outcome |-> "returned",
                               nil |-> FALSE, err |-> "nil",
                               res |-> buildInputWith(getPrivacykeyPair("A"),
                                                      fnArgs.mixcount,
                                                      fnArgs.selectedUtxo, res, perms)]
    /\ UNCHANGED <<txs, mempool, blocks, lastHeader, utxoRec, availIdx, ftxos,
                   revertFtxos, stxos, scanInput, rescanFlagDb, rescanUTXOflag,
                   rescan, reply, fnArgs, mtx, pc, client>>

\* types.Encode of a PrivacySignatureParam: its fields in their order, a
\* repeated field as one entry per element.
EncodeSignParam(param) ==
    <<[field |-> "ActionType", value |-> param.ActionType]>>
        \o [k \in DOMAIN param.Utxobasics |->
                [field |-> "Utxobasics", value |-> param.Utxobasics[k]]]
        \o [k \in DOMAIN param.RealKeyInputs |->
                [field |-> "RealKeyInputs", value |-> param.RealKeyInputs[k]]]

\* types.Decode: the entries of a repeated field in the order they are read.
DecodeSignParam(data) ==
    LET ty == SelectSeq(data, LAMBDA e : e.field = "ActionType")
        ub == SelectSeq(data, LAMBDA e : e.field = "Utxobasics")
        rk == SelectSeq(data, LAMBDA e : e.field = "RealKeyInputs")
    IN  [ActionType    |-> IF ty = <<>> THEN 0 ELSE ty[Len(ty)].value,
         Utxobasics    |-> [k \in DOMAIN ub |-> ub[k].value],
         RealKeyInputs |-> [k \in DOMAIN rk |-> rk[k].value]]

\* signatureTx with the rings sorted by global index before they are signed.
signatureTxSorted(privacyInput, utxosInKeyInput, realkeyInputSlice) ==
    [i \in DOMAIN privacyInput |->
        [utxos |-> sortSlice(utxosInKeyInput[i],
                             [j \in DOMAIN utxosInKeyInput[i] |->
                                 IdKey(utxosInKeyInput[i][j].utxoGlobalIndex)],
                             FALSE),
         onetimeprivkey |-> realkeyInputSlice[i].onetimeprivkey,
         realinputkey |-> realkeyInputSlice[i].realinputkey,
         keyImage |-> privacyInput[i].keyImage]]

\* signatureTx: what GenerateRingSignature is called with for every input.
signatureTx(privacyInput, utxosInKeyInput, realkeyInputSlice) ==
    [i \in DOMAIN privacyInput |->
        [utxos |-> utxosInKeyInput[i],
         onetimeprivkey |-> realkeyInputSlice[i].onetimeprivkey,
         realinputkey |-> realkeyInputSlice[i].realinputkey,
         keyImage |-> privacyInput[i].keyImage]]

ActionPrivacy2Privacy == 2

\* The unsigned transaction createPrivacy2PrivacyTx returns for a build:
\* the rings and the real keys travel in the place of the signature.
unsignedTx(b) ==
    [actionTy |-> ActionPrivacy2Privacy, input |-> b.privacyInput,
     Signature |-> EncodeSignParam([ActionType    |-> ActionPrivacy2Privacy,
                                    Utxobasics    |-> b.utxosInKeyInput,
                                    RealKeyInputs |-> b.realkeyInputSlice])]

\* signTxWithPrivacy of a Privacy2Privacy or Privacy2Public transaction.
signTxWithPrivacy(tx) ==
    LET signParam == DecodeSignParam(tx.Signature)
    IN  IF tx.actionTy # signParam.ActionType THEN <<>>
        ELSE signatureTx(tx.input, signParam.Utxobasics, signParam.RealKeyInputs)

\* The build is signed: at once by the direct entry points, or by
\* signTxWithPrivacy when the unsigned transaction comes back.
ApplySignatureTx ==
    /\ fnResult.fn = "buildInput"
    /\ ~fnResult.nil
    /\ \E path \in {"direct", "deferred"} :
          fnResult' =
              [fn    |-> "signatureTx",
               path  |-> path,
               res   |-> fnResult.res,
               items |-> IF path = "direct"
                         THEN signatureTx(fnResult.res.privacyInput,
                                          fnResult.res.utxosInKeyInput,
                                          fnResult.res.realkeyInputSlice)
                         ELSE signTxWithPrivacy(unsignedTx(fnResult.res))]
    /\ UNCHANGED <<txs, mempool, blocks, lastHeader, utxoRec, availIdx, ftxos,
                   revertFtxos, stxos, scanInput, rescanFlagDb, rescanUTXOflag,
                   rescan, reply, fnArgs, mtx, pc, client>>

NextRing == ApplyBuildInput \/ ApplySignatureTx

SpecRing == InitRing /\ [][NextRing]_vars

Rings == fnResult.res.utxosInKeyInput

\* C19: every ring buildInput builds with the mix count mix has at most
\* mix + 1 members, whatever number of decoys the chain returned.
C19_RingAtMostMixPlusOne ==
    fnResult.fn = "buildInput" =>
        \A i \in DOMAIN Rings : Len(Rings[i]) <= fnArgs.mixcount + 1

\* C20: in every ring buildInput builds the real output occurs exactly
\* once, whatever decoy list the chain returned.
C20_RealOutputOnce ==
    fnResult.fn = "buildInput" =>
        \A i \in DOMAIN Rings :
            Cardinality({j \in DOMAIN Rings[i] :
                            Rings[i][j].onetimepubkey
                                = fnResult.res.selectedUtxo[i].onetimePublicKey}) = 1

\* C21: in everything buildInput returns, for every input i and every
\* permutation, the ring entry at the recorded real position
\* (Realinputkey) is the output being spent: its one-time public key and
\* its global index are those of the selected output i.
C21_RealPositionIsReal ==
    fnResult.fn = "buildInput" =>
        \A i \in DOMAIN Rings :
            LET pos == fnResult.res.realkeyInputSlice[i].realinputkey + 1
                sel == fnResult.res.selectedUtxo[i]
            IN  /\ pos \in DOMAIN Rings[i]
                /\ Rings[i][pos].onetimepubkey = sel.onetimePublicKey
                /\ Rings[i][pos].utxoGlobalIndex = sel.utxoGlobalIndex

\* C21 witness: a ring of three members with the real output in the
\* middle, and a build of two inputs whose second ring has the real
\* output first and a decoy after it.
C21_Witness ==
    /\ fnResult.fn = "buildInput"
    /\ \/ /\ Len(Rings[1]) = 3
          /\ fnResult.res.realkeyInputSlice[1].realinputkey = 1
          /\ Rings[1][1].onetimepubkey # RealUtxo.onetimePublicKey
          /\ Rings[1][3].onetimepubkey # RealUtxo.onetimePublicKey
       \/ /\ Len(Rings) = 2
          /\ Len(Rings[2]) = 2
          /\ fnResult.res.realkeyInputSlice[2].realinputkey = 0
          /\ Rings[2][2].onetimepubkey # RealUtxo2.onetimePublicKey

\* C22: for every input i the order of KeyInput.UtxoGlobalIndex in the
\* transaction is the order of the ring the signer passes to the ring
\* signature, when the build is signed at once and when the rings travel
\* in the place of the signature and signTxWithPrivacy recovers them.
C22_RingOrder ==
    fnResult.fn = "signatureTx" =>
        /\ DOMAIN fnResult.items = DOMAIN fnResult.res.privacyInput
        /\ \A i \in DOMAIN fnResult.items :
              fnResult.res.privacyInput[i].utxoGlobalIndex
                  = [j \in DOMAIN fnResult.items[i].utxos |->
                        fnResult.items[i].utxos[j].utxoGlobalIndex]

\* C22 witness: signTxWithPrivacy signed a ring of three members that is
\* not in the order of the global indexes.
C22_Witness ==
    /\ fnResult.fn = "signatureTx"
    /\ fnResult.path = "deferred"
    /\ Len(fnResult.items[1].utxos) = 3
    /\ IdKey(fnResult.items[1].utxos[1].utxoGlobalIndex)
          > IdKey(fnResult.items[1].utxos[2].utxoGlobalIndex)

\* The decoys the chain's answer holds for input i: the outputs of the
\* entry at the position of the input, if it is of the input's amount.
DecoysFor(i) ==
    LET entries == sortResponse(fnArgs.res).UtxoIndex4Amount
    IN  IF i <= Len(entries)
            /\ entries[i].amount = fnResult.res.selectedUtxo[i].amount
        THEN entries[i].utxos
        ELSE <<>>

Occurrences(list, utxo) == Cardinality({j \in DOMAIN list : list[j] = utxo})

RealOf(i) ==
    [utxoGlobalIndex |-> fnResult.res.selectedUtxo[i].utxoGlobalIndex,
     onetimepubkey |-> fnResult.res.selectedUtxo[i].onetimePublicKey]

\* C23: with mixcount 0 buildInput asks the chain nothing and every ring
\* is the real output alone; with mixcount > 0 and an answer that holds
\* at most mixcount decoys for the input's amount, buildInput returns a
\* ring that consists of the returned decoys without the one that is the
\* real output, and the real output.
C23_RingFromDecoys ==
    fnResult.fn = "buildInput" =>
        \A i \in DOMAIN Rings :
            /\ fnArgs.mixcount = 0 => Rings[i] = <<RealOf(i)>>
            /\ (fnArgs.mixcount > 0 /\ Len(DecoysFor(i)) <= fnArgs.mixcount) =>
                  /\ Range(Rings[i]) \subseteq ChainUtxos
                  /\ \A u \in ChainUtxos \ {RealOf(i)} :
                        Occurrences(Rings[i], u) = Occurrences(DecoysFor(i), u)
                  /\ Occurrences(Rings[i], RealOf(i))
                        = IF Occurrences(DecoysFor(i), RealOf(i)) > 0
                          THEN Occurrences(DecoysFor(i), RealOf(i))
                          ELSE 1

\* C23 witness: with mixcount 5 the chain returned four outputs, one of
\* them the real output, and the ring has four members.
C23_Witness ==
    /\ fnResult.fn = "buildInput"
    /\ fnArgs.mixcount = 5
    /\ Len(DecoysFor(1)) = 4
    /\ Occurrences(DecoysFor(1), RealOf(1)) = 1
    /\ Cardinality(Range(DecoysFor(1))) = 4
    /\ Len(Rings[1]) = 4

\* ---------------------------------------------------------------------
\* the outputs of a public-to-privacy transfer
\* ---------------------------------------------------------------------

\* The Public2Privacy transactions the wallet built with transPub2PriV2 or
\* createPublic2PrivacyTx: transaction 1 is the other wallet's.
Pub2PrivBuilt == {n \in DOMAIN txs \ {1} : txs[n].ty = "Public2Privacy"}

\* C24: a Public2Privacy transaction the wallet built, directly or
\* deferred, has exactly one KeyOutput and its amount is the amount of the
\* transfer.
C24_SingleOutput ==
    \A n \in Pub2PrivBuilt :
        /\ Len(txs[n].output.Keyoutput) = 1
        /\ txs[n].output.Keyoutput[1].amount = txs[n].amount

\* ---------------------------------------------------------------------
\* the wallet mutex and the goroutines of the wallet
\* ---------------------------------------------------------------------

\* sync.Mutex: Lock waits until the mutex is free, also when the caller
\* itself holds it.
Lock(t) == mtx = "none" /\ mtx' = t
Unlock(t) == mtx = t /\ mtx' = "none"

Goto(t, p) == pc' = [pc EXCEPT ![t] = p]

\* What a step of a goroutine leaves alone.
SameWallet ==
    UNCHANGED <<txs, mempool, blocks, lastHeader, storeVars, rescan, reply,
                fnArgs, fnResult, client>>

\* ---- a call of a build entry point (procPrivacy2PrivacyV2 and the others)
BuildLock ==
    /\ pc["build"] = "idle"
    /\ Lock("build")
    /\ Goto("build", "checks")
    /\ UNCHANGED rescanUTXOflag /\ SameWallet

\* The checks of the entry point: a build is refused during a rescan.
BuildChecks ==
    /\ pc["build"] = "checks"
    /\ Goto("build", IF IsRescanUtxosFlagScaning THEN "return" ELSE "select")
    /\ UNCHANGED <<mtx, rescanUTXOflag>> /\ SameWallet

\* selectUTXO reads the outputs available.
BuildSelect ==
    /\ pc["build"] = "select"
    /\ Goto("build", "save")
    /\ UNCHANGED <<mtx, rescanUTXOflag>> /\ SameWallet

\* saveFTXOInfo moves the outputs selected to the FTXO of the transaction.
BuildSave ==
    /\ pc["build"] = "save"
    /\ Goto("build", "return")
    /\ UNCHANGED <<mtx, rescanUTXOflag>> /\ SameWallet

BuildUnlock ==
    /\ pc["build"] = "return"
    /\ Unlock("build")
    /\ Goto("build", "idle")
    /\ UNCHANGED rescanUTXOflag /\ SameWallet

\* ---- a call of procCreateTransaction
\* CheckWalletStatus and IsRescanUtxosFlagScaning, before the Lock.
CreateChecks ==
    /\ pc["build"] = "idle"
    /\ Goto("build", IF IsRescanUtxosFlagScaning THEN "idle" ELSE "locking")
    /\ pc' # pc
    /\ UNCHANGED <<mtx, rescanUTXOflag>> /\ SameWallet

CreateLock ==
    /\ pc["build"] = "locking"
    /\ Lock("build")
    /\ Goto("build", "create")
    /\ UNCHANGED rescanUTXOflag /\ SameWallet

\* createPrivacy2PrivacyTx or createPrivacy2PublicTx: selectUTXO and
\* saveFTXOInfo.
CreateBuild ==
    /\ pc["build"] = "create"
    /\ Goto("build", "return")
    /\ UNCHANGED <<mtx, rescanUTXOflag>> /\ SameWallet

\* ---- procInvalidTxOnTimer
TimerLock ==
    /\ pc["timer"] = "idle"
    /\ Lock("timer")
    /\ Goto("timer", "read")
    /\ UNCHANGED rescanUTXOflag /\ SameWallet

\* GetWalletFtxoStxo of the FTXO and of the revert-FTXO.
TimerRead ==
    /\ pc["timer"] = "read"
    /\ Goto("timer", "move")
    /\ UNCHANGED <<mtx, rescanUTXOflag>> /\ SameWallet

\* moveFTXO2UTXO of the expired ones.
TimerMove ==
    /\ pc["timer"] = "move"
    /\ Goto("timer", "return")
    /\ UNCHANGED <<mtx, rescanUTXOflag>> /\ SameWallet

TimerUnlock ==
    /\ pc["timer"] = "return"
    /\ Unlock("timer")
    /\ Goto("timer", "idle")
    /\ UNCHANGED rescanUTXOflag /\ SameWallet

\* ---- RescanReqUtxosByAddr, started as a goroutine with the flag Scaning
RescanGo ==
    /\ pc["rescan"] = "idle"
    /\ rescanUTXOflag' = "Scaning"
    /\ Goto("rescan", "page")
    /\ UNCHANGED mtx /\ SameWallet

\* SelectCurrentWalletPrivacyTx of a page asks getPrivacyKeyPairsOfWallet
\* for the keys of the wallet.
RescanKeysLock ==
    /\ pc["rescan"] = "page"
    /\ Lock("rescan")
    /\ Goto("rescan", "keys")
    /\ UNCHANGED rescanUTXOflag /\ SameWallet

RescanKeysUnlock ==
    /\ pc["rescan"] = "keys"
    /\ Unlock("rescan")
    /\ Goto("rescan", "write")
    /\ UNCHANGED rescanUTXOflag /\ SameWallet

\* SelectCurrentWalletPrivacyTx writes the outputs of the wallet it found;
\* the replay goes on with the next page or ends.
RescanWrite ==
    /\ pc["rescan"] = "write"
    /\ \E more \in BOOLEAN : Goto("rescan", IF more THEN "page" ELSE "flag")
    /\ UNCHANGED <<mtx, rescanUTXOflag>> /\ SameWallet

RescanFlag ==
    /\ pc["rescan"] = "flag"
    /\ rescanUTXOflag' = "NoScan"
    /\ Goto("rescan", "reconcile")
    /\ UNCHANGED mtx /\ SameWallet

\* DeleteScanPrivacyInputUtxo reads the inputs seen (GetScanPrivacyInputUTXO)
RescanReconcileRead ==
    /\ pc["rescan"] = "reconcile"
    /\ Goto("rescan", "reconciling")
    /\ UNCHANGED <<mtx, rescanUTXOflag>> /\ SameWallet

\* and moves the outputs of the wallet among them to the STXO.
RescanReconcileWrite ==
    /\ pc["rescan"] = "reconciling"
    /\ Goto("rescan", "idle")
    /\ UNCHANGED <<mtx, rescanUTXOflag>> /\ SameWallet

\* ---- onAddPrivacyTxFromBlock, onDelPrivacyTxFromBlock
\* The caller of the handlers holds the mutex, as the concurrency model of
\* spec.md states, or it does not.
BlockEvent ==
    /\ pc["block"] = "idle"
    /\ \E held \in BOOLEAN : IF held THEN Lock("caller") ELSE UNCHANGED mtx
    /\ Goto("block", "handler")
    /\ UNCHANGED rescanUTXOflag /\ SameWallet

\* updateWalletPrivacyAccountUTXO asks getPrivacyKeyPairsOfWallet.
HandlerKeysLock ==
    /\ pc["block"] = "handler"
    /\ Lock("block")
    /\ Goto("block", "keys")
    /\ UNCHANGED rescanUTXOflag /\ SameWallet

HandlerKeysUnlock ==
    /\ pc["block"] = "keys"
    /\ Unlock("block")
    /\ Goto("block", "update")
    /\ UNCHANGED rescanUTXOflag /\ SameWallet

\* updateWalletPrivacyAccountUTXO looks for the outputs of the wallet in
\* the transaction; it and updateWalletPrivacyTxDetail write nothing.
HandlerUpdate ==
    /\ pc["block"] = "update"
    /\ Goto("block", "done")
    /\ UNCHANGED <<mtx, rescanUTXOflag>> /\ SameWallet

BlockDone ==
    /\ pc["block"] = "done"
    /\ mtx' = IF mtx = "caller" THEN "none" ELSE mtx
    /\ Goto("block", "idle")
    /\ UNCHANGED rescanUTXOflag /\ SameWallet

NextMutex ==
    \/ BuildLock \/ BuildChecks \/ BuildSelect \/ BuildSave \/ BuildUnlock
    \/ CreateChecks \/ CreateLock \/ CreateBuild
    \/ TimerLock \/ TimerRead \/ TimerMove \/ TimerUnlock
    \/ RescanGo \/ RescanKeysLock \/ RescanKeysUnlock \/ RescanWrite
    \/ RescanFlag \/ RescanReconcileRead \/ RescanReconcileWrite
    \/ BlockEvent \/ HandlerKeysLock \/ HandlerKeysUnlock \/ HandlerUpdate
    \/ BlockDone

SpecMutex == Init /\ [][NextMutex]_vars

\* The goroutines whose next step reads or writes the outputs of the
\* wallet.
Accessing ==
    {t \in Threads :
        pc[t] \in CASE t = "build"  -> {"select", "save", "create"}
                    [] t = "timer"  -> {"read", "move"}
                    [] t = "rescan" -> {"write", "reconcile", "reconciling"}
                    [] t = "block"  -> {}}

\* The goroutines between a read of the outputs and the write that
\* follows from it.
Midway ==
    {t \in Threads :
        pc[t] \in CASE t = "build"  -> {"save"}
                    [] t = "timer"  -> {"move"}
                    [] t = "rescan" -> {"reconciling"}
                    [] t = "block"  -> {}}

Holds(t) == mtx = t \/ (t = "block" /\ mtx = "caller")

\* C25: every operation that reads or writes the outputs of the wallet
\* (build, expiry timer, rescan replay, reconciliation)
\* holds the wallet mutex while it does, so while one of them is between
\* its read and its write no other one reads or writes.
C25_MutexGuardsAll ==
    /\ \A t \in Accessing : Holds(t)
    /\ \A t \in Midway : Accessing \subseteq {t}

\* The goroutines whose next step is a Lock of the wallet mutex.
AtLock ==
    {t \in Threads :
        pc[t] \in CASE t = "build"  -> {"idle", "locking"}
                    [] t = "timer"  -> {"idle"}
                    [] t = "rescan" -> {"page"}
                    [] t = "block"  -> {"handler"}}

\* C30: no goroutine comes to a Lock of the wallet mutex while it holds
\* the mutex, so a block handler that runs under the mutex is not stopped
\* at the Lock of getPrivacyKeyPairsOfWallet.
C30_NoLockWhileHeld ==
    \A t \in AtLock : ~Holds(t)

\* ---------------------------------------------------------------------
\* the end of a rescan
\* ---------------------------------------------------------------------

\* The outputs of the transactions in the chain with receipt ExecOk that
\* belong to an account of the wallet.
ChainOutputsOfWallet ==
    LET OwnedByWallet(t, i) ==
            \E a \in Accounts :
                PubKey(RecoverOnetimePriKey(Tx(t).output.RpubKeytx,
                                            getPrivacykeyPair(a), i - 1))
                    = Tx(t).output.Keyoutput[i].onetimepubkey
    IN  UNION {{<<d.tx, i - 1>> : i \in {j \in DOMAIN Tx(d.tx).output.Keyoutput :
                                            OwnedByWallet(d.tx, j)}} :
               d \in {x \in Range(TxDetails) : x.ok}}

\* The replay has reached the head: the wallet holds a record of every
\* such output.
HeadReplayed ==
    \A o \in ChainOutputsOfWallet : IsUTXOExist(Store, o[1], o[2])

\* C26: reqUtxosByAddr leaves its loop for the flip of the flag to NoScan
\* and ScanEnd only when the replay has reached the head of the chain; it
\* does not when the query of the chain failed or returned nothing.
C26_ScanEndOnlyAtHead ==
    [][(rescan.pc = "scan" /\ rescan'.pc = "scanned") => HeadReplayed']_vars

\* ---------------------------------------------------------------------
\* selectUTXO applied to the outputs of an account
\* ---------------------------------------------------------------------

MaxUtxos == 3

\* The head of the chain and the heights of the outputs: two of them more
\* than PrivacyMaturityDegree below the head, one exactly that far, two
\* nearer and one above the head.
SelectHeight == 20
SelectHeights == {3, 7, 8, 18, 19, 21}
SelectAmounts == {Coin, 2 * Coin}
SelectNeeds == {Coin, 2 * Coin, 3 * Coin, 4 * Coin}

\* The lists getPrivacyTokenUTXOs can return: id is the place in the list.
SelectLists ==
    UNION {{[k \in 1..n |-> [height |-> hs[k],
                             outinfo |-> [amount |-> as[k], id |-> k]]] :
               hs \in [1..n -> SelectHeights], as \in [1..n -> SelectAmounts]} :
           n \in 0..MaxUtxos}

SelectArgs ==
    {[fn |-> "selectUTXO", wutxos |-> l, curBlockHeight |-> SelectHeight,
      amount |-> a] : l \in SelectLists, a \in SelectNeeds}

InitSelect ==
    /\ InitWallet
    /\ fnArgs \in SelectArgs
    /\ fnResult = NoResult

ApplySelectUTXO ==
    /\ fnArgs.fn = "selectUTXO"
    /\ fnResult = NoResult
    /\ fnResult' = [fn  |-> "selectUTXO",
                    res |-> selectPool(fnArgs.wutxos, fnArgs.curBlockHeight,
                                       fnArgs.amount)]
    /\ UNCHANGED <<txs, mempool, blocks, lastHeader, utxoRec, availIdx, ftxos,
                   revertFtxos, stxos, scanInput, rescanFlagDb, rescanUTXOflag,
                   rescan, reply, fnArgs, mtx, pc, client>>

NextSelect == ApplySelectUTXO

SpecSelect == InitSelect /\ [][NextSelect]_vars

IsConfirmed(w) == fnArgs.curBlockHeight - w.height > PrivacyMaturityDegree

RECURSIVE AmountOf(_)
AmountOf(ws) ==
    IF ws = {} THEN 0
    ELSE LET w == CHOOSE x \in ws : TRUE
         IN  w.outinfo.amount + AmountOf(ws \ {w})

ConfirmedTotal == AmountOf({w \in Range(fnArgs.wutxos) : IsConfirmed(w)})

\* The unconfirmed outputs of a height below h, none above the head.
UnconfirmedBelow(h) ==
    {w \in Range(fnArgs.wutxos) : ~IsConfirmed(w) /\ w.height < h}

\* C27: selectUTXO draws from every output more than PrivacyMaturityDegree
\* blocks below the head; from an unconfirmed output only if the confirmed
\* ones sum to less than the amount, and from an unconfirmed output of
\* height h only if the confirmed ones and all unconfirmed ones of a height
\* below h together sum to less than the amount.
C27_MaturityPolicy ==
    fnResult.fn = "selectUTXO" =>
        /\ \A w \in Range(fnArgs.wutxos) :
              IsConfirmed(w) => w \in Range(fnResult.res)
        /\ \A w \in Range(fnResult.res) :
              ~IsConfirmed(w) =>
                  /\ ConfirmedTotal < fnArgs.amount
                  /\ ConfirmedTotal + AmountOf(UnconfirmedBelow(w.height))
                        < fnArgs.amount

\* C27 witness: the confirmed output does not cover the amount, the
\* unconfirmed output of height 18 is drawn from and covers it, the one of
\* height 19 is left out.
C27_Witness ==
    /\ fnResult.fn = "selectUTXO"
    /\ ConfirmedTotal = Coin
    /\ fnArgs.amount = 2 * Coin
    /\ \E w \in Range(fnResult.res) : w.height = 18
    /\ \E w \in Range(fnArgs.wutxos) \ Range(fnResult.res) : w.height = 19

\* ---------------------------------------------------------------------
\* rescans of a chain that holds one more transaction
\* ---------------------------------------------------------------------

\* Another wallet's public-to-privacy transfer to an account of the wallet
\* or to a foreign key pair.
ScanKeys == {"A", "B", ExternalKeys}
ScanAmounts == {Coin, 3 * Coin}
ScanAddrs == {<<>>, <<"A">>, <<"B">>, <<"A", "B">>}

ScanTx(keys, amount) ==
    [ty |-> "Public2Privacy", tokenname |-> BTY, amount |-> amount,
     from |-> "pub", input |-> <<>>,
     output |-> generateOuts(keys, "", amount, amount, 0, 1),
     expire |-> 0, mode |-> "direct", signParam |-> NoSignParam]

\* The foreign wallet spends the output of its transfer of 2 Coin
\* (transaction 1) in transaction 2; the chain gave it an output of the
\* wallet, of the same amount, to mix with.
ForeignUtxo ==
    LET out == ScanTx(ExternalKeys, 2 * Coin).output
    IN  [amount |-> out.Keyoutput[1].amount,
         utxoGlobalIndex |-> UTXOGlobalIndex(1, 0),
         txPublicKeyR |-> out.RpubKeytx,
         onetimePublicKey |-> out.Keyoutput[1].onetimepubkey]

ForeignSpends ==
    {LET b == buildInputWith(ExternalKeys, 1, <<ForeignUtxo>>,
                  [nil |-> FALSE,
                   UtxoIndex4Amount |->
                      <<[amount |-> 2 * Coin,
                         utxos |-> <<[utxoGlobalIndex |-> d,
                                      onetimepubkey |-> OutputOf(d).onetimepubkey]>>]>>],
                  perms)
     IN  [ty |-> "Privacy2Privacy", tokenname |-> BTY, amount |-> Coin,
          from |-> "ext", input |-> b.privacyInput,
          output |-> generateOuts(ExternalKeys, ExternalKeys, Coin, 2 * Coin,
                                  PrivacyTxFee, 2),
          expire |-> 0, mode |-> "direct",
          signParam |-> [utxobasics |-> b.utxosInKeyInput,
                         realKeyInputs |-> b.realkeyInputSlice]] :
        d \in OutputIds(0), perms \in [{1} -> Perm(2)]}

\* Account B received 2 Coin in transaction 1.
TransferToB ==
    [ScanTx("B", 2 * Coin) EXCEPT
        !.output = generateOuts("B", "", 2 * Coin, 2 * Coin, 0, 1)]

\* The Privacy2Privacy transaction r in which an account of the wallet
\* spent its output id of 2 Coin, without decoys, before the store of the
\* wallet was lost.
WalletSpend(account, id, out, r) ==
    LET b == buildInputWith(getPrivacykeyPair(account), 0,
                 <<[amount |-> out.Keyoutput[id.outindex + 1].amount,
                    utxoGlobalIndex |-> id,
                    txPublicKeyR |-> out.RpubKeytx,
                    onetimePublicKey |->
                        out.Keyoutput[id.outindex + 1].onetimepubkey]>>,
                 NilResponse, [i \in {1} |-> <<0>>])
    IN  [ty |-> "Privacy2Privacy", tokenname |-> BTY, amount |-> Coin,
         from |-> account, input |-> b.privacyInput,
         output |-> generateOuts(ExternalKeys, getPrivacykeyPair(account), Coin,
                                 2 * Coin, PrivacyTxFee, r),
         expire |-> 0, mode |-> "direct",
         signParam |-> [utxobasics |-> b.utxosInKeyInput,
                        realKeyInputs |-> b.realkeyInputSlice]]

\* The chains of the rescans: the one transfer; the foreign wallet's
\* transfer to itself and its spend of it; a transfer to B, A's spend of
\* an output of GenesisTx and B's spend of that transfer.
ScanChains ==
    {<<ScanTx(keys, amount)>> : keys \in ScanKeys, amount \in ScanAmounts}
        \cup {<<ScanTx(ExternalKeys, 2 * Coin), tx>> : tx \in ForeignSpends}
        \cup {<<TransferToB,
                WalletSpend("A", UTXOGlobalIndex(0, 0), GenesisTx.output, 2),
                WalletSpend("B", UTXOGlobalIndex(1, 0), TransferToB.output, 3)>>}

\* The wallet after construction; the chain holds the transactions in
\* blocks above the initial head, the last with a receipt ExecOk or not.
InitScan ==
    /\ txs \in ScanChains
    /\ mempool = {}
    /\ \E ok \in BOOLEAN :
          blocks = [i \in DOMAIN txs |-> [tx |-> i, ok |-> i < Len(txs) \/ ok]]
    /\ lastHeader = HeaderAt(Len(txs))
    /\ utxoRec = <<>>
    /\ availIdx = {}
    /\ ftxos = {}
    /\ revertFtxos = {}
    /\ stxos = {}
    /\ scanInput = {}
    /\ rescanFlagDb = [a \in Accounts |-> "NoScan"]
    /\ rescanUTXOflag = "NoScan"
    /\ rescan = Idle
    /\ reply = NoReply
    /\ fnArgs = NoArgs
    /\ fnResult = NoResult
    /\ mtx = "none"
    /\ pc = [t \in Threads |-> "idle"]
    /\ client = NoClient

NextScan ==
    \/ NoApply /\ \E addrs \in ScanAddrs : RescanStart(addrs)
    \/ NoApply /\ \E queryOk \in BOOLEAN : reqUtxosByAddrScan(queryOk)
    \/ NoApply /\ reqUtxosByAddrFlag
    \/ NoApply /\ reqUtxosByAddrEnd

SpecScan == InitScan /\ [][NextScan]_vars

\* ---------------------------------------------------------------------
\* the records a replay writes
\* ---------------------------------------------------------------------

\* A step that replays the transactions of the chain.
Replayed == rescan.pc = "scan" /\ rescan'.pc = "scanned"

\* C28: a replay records an output only if it is an output of a transaction
\* with receipt ExecOk, matches a key pair of the wallet and is not
\* recorded yet, and makes it available to one owner; the records there
\* are stay as they are, however often the chain is replayed: no output
\* gets a second record or becomes available again.
C28_ReplayRecordsOnce ==
    [][Replayed =>
          /\ DOMAIN utxoRec' \ DOMAIN utxoRec \subseteq
                {UTXOGlobalIndex(o[1], o[2]) : o \in ChainOutputsOfWallet}
          /\ \A id \in DOMAIN utxoRec : utxoRec'[id] = utxoRec[id]
          /\ \A k \in availIdx' \ availIdx :
                /\ k.id \in DOMAIN utxoRec' \ DOMAIN utxoRec
                /\ k.owner = utxoRec'[k.id].owner
          /\ \A k1, k2 \in availIdx' : k1.id = k2.id => k1 = k2]_vars

\* C28 witness: after a rescan of account A that ended, the chain was
\* replayed again for account B; the wallet holds the records of the first
\* replay and none of the two outputs of account B in the transaction
\* whose receipt is not ExecOk.
C28_Witness ==
    /\ rescan.pc = "scanned"
    /\ rescan.addrs = <<"B">>
    /\ rescanFlagDb["A"] = "ScanEnd"
    /\ DOMAIN utxoRec = {UTXOGlobalIndex(0, 0), UTXOGlobalIndex(0, 1)}
    /\ ~blocks[1].ok
    /\ Len(Tx(1).output.Keyoutput) = 2
    /\ PubKey(RecoverOnetimePriKey(Tx(1).output.RpubKeytx,
                                   getPrivacykeyPair("B"), 0))
          = Tx(1).output.Keyoutput[1].onetimepubkey

\* ---------------------------------------------------------------------
\* the entries the timer leaves alone
\* ---------------------------------------------------------------------

\* The outputs available in the store S.
AvailableIn(S) == {k.id : k \in S.availIdx}

\* C29: when the timer runs, an entry of the FTXO or of the revert-FTXO
\* keyspace that is not past its expiry at the last header stays in its
\* keyspace and its outputs stay as they are; without a last header the
\* timer changes nothing.
C29_TimerLeavesUnexpired ==
    /\ lastHeader = NoHeader => timerStore = Store
    /\ \A r \in (ftxos \cup revertFtxos) \ Expired :
          /\ r \in ftxos => r \in timerStore.ftxos
          /\ r \in revertFtxos => r \in timerStore.revertFtxos
          /\ r.utxos \cap AvailableIn(timerStore) = r.utxos \cap AvailableIn(Store)

\* C29 witness: a header is known, the timer moves an expired entry and
\* another entry is not past its expiry.
C29_Witness ==
    /\ lastHeader # NoHeader
    /\ timerStore # Store
    /\ (ftxos \cup revertFtxos) \ Expired # {}

\* ---------------------------------------------------------------------
\* the outputs a reconciliation moves to the STXO
\* ---------------------------------------------------------------------

\* C31: an output of the wallet is in the STXO after the reconciliation of
\* a rescan only if a transaction of the chain spent it, that is the
\* output is the real member of a ring of the transaction; an output that
\* is a decoy of a ring only stays available.
C31_SpentOnlyIfReal ==
    \A id \in SpentIds :
        \E t \in InBlocks(blocks) :
            Tx(t).input # <<>> /\ id \in RealInputs(Tx(t))

\* ---------------------------------------------------------------------
\* the owner of a record
\* ---------------------------------------------------------------------

\* The key pair of account a recovers the one-time key of the output id.
MatchesKeysOf(a, id) ==
    PubKey(RecoverOnetimePriKey(Tx(id.txhash).output.RpubKeytx,
                                getPrivacykeyPair(a), id.outindex))
        = OutputOf(id).onetimepubkey

\* C32: every output a rescan recorded, for one address or for several, is
\* recorded with the address whose key pair matched it as its owner, and
\* is available under that address.
C32_OwnerIsMatchingAddress ==
    /\ \A id \in DOMAIN utxoRec : MatchesKeysOf(utxoRec[id].owner, id)
    /\ \A k \in availIdx : MatchesKeysOf(k.owner, k.id)

\* ---------------------------------------------------------------------
\* the keys a reconciliation writes
\* ---------------------------------------------------------------------

\* C33: every output the reconciliation of a rescan moved to the STXO is
\* kept there under its own owner and token and is not available any
\* more, also when the observed inputs of one batch match outputs of
\* different owners; when the rescan has ended no observed input is left.
C33_SpentUnderOwnOwner ==
    /\ \A r \in stxos : \A id \in r.utxos :
          /\ r.sender = utxoRec[id].owner
          /\ r.tokenname = utxoRec[id].tokenname
          /\ id \notin AvailableIds
    /\ rescan.pc = "idle" => scanInput = {}

\* ---------------------------------------------------------------------
\* the end of a rescan and the builds
\* ---------------------------------------------------------------------

\* C34: no step builds a transaction that spends an output the rescan has
\* observed as an input of a transaction of the chain: when builds are
\* admitted again the observed inputs are reconciled.
C34_NoBuildOnObservedSpend ==
    [][\A t \in Built :
          txs'[t].input # <<>> => RealInputs(txs'[t]) \cap scanInput = {}]_vars

\* ---------------------------------------------------------------------
\* the checks of procCreateTransaction
\* ---------------------------------------------------------------------

\* C35: while procCreateTransaction selects and freezes outputs the
\* rescan flag is not Scaning: the flag does not become Scaning between
\* the check of the entry point and its build under the mutex.
C35_CreateNotWhileScaning ==
    pc["build"] = "create" => ~IsRescanUtxosFlagScaning

\* ---------------------------------------------------------------------
\* what buildInput returns
\* ---------------------------------------------------------------------

\* C36: when buildInput returns no PrivacyInput it returns an error: a
\* build with mix > 0 whose chain query is answered with no response
\* fails with an error.
C36_NoInputMeansError ==
    (fnResult.fn = "buildInput" /\ fnResult.outcome = "returned" /\ fnResult.nil)
        => fnResult.err # "nil"

\* C37: for a mix count of zero or below buildInput returns its inputs,
\* and each ring holds the real output and nothing else.
C37_NoMixRingIsReal ==
    (fnResult.fn = "buildInput" /\ fnArgs.mixcount <= 0) =>
        /\ fnResult.outcome = "returned"
        /\ ~fnResult.nil
        /\ \A i \in DOMAIN fnResult.res.selectedUtxo :
              Rings[i] = <<[utxoGlobalIndex |->
                                fnResult.res.selectedUtxo[i].utxoGlobalIndex,
                            onetimepubkey |->
                                fnResult.res.selectedUtxo[i].onetimePublicKey]>>

\* ---------------------------------------------------------------------
\* the calls that return an error
\* ---------------------------------------------------------------------

C39_FrozenWithExpiry ==
    [][\A r \in ftxos' \ ftxos :
          /\ r.expire = txs'[r.txhash].expire
          /\ r.expire = Now + getExpire(0)]_vars

\* ---------------------------------------------------------------------
\* the block producer of the PBFT consensus
\* ---------------------------------------------------------------------
MaxProposals == 3
MaxClock == 2

\* pb.Now().Unix() as the producer reads it.
Clock == 0 .. MaxClock
\* What RequestTx returns: the transactions of the mempool, at most the
\* number a block takes.
TxBatches == {<<>>, <<1>>, <<1, 2>>}

\* Block.Hash.
Hash(block) == [hashOf |-> block]

\* The block InitBlock makes the current one.
FirstBlock(blockTime) ==
    [ParentHash |-> "zero", Height |-> 0, Txs |-> <<>>, BlockTime |-> blockTime]

\* The block of CreateBlock with the block time pb.Now().Unix() whatever
\* the block time of the last block is.
newblockNow(lastBlock, batch, now) ==
    [ParentHash |-> Hash(lastBlock), Height |-> lastBlock.Height + 1,
     Txs |-> batch, BlockTime |-> now]

\* The block CreateBlock builds on lastBlock: its block time is the time
\* of the clock, or one more than that of lastBlock when the clock has not
\* passed it.
newblock(lastBlock, batch, now) ==
    [ParentHash |-> Hash(lastBlock), Height |-> lastBlock.Height + 1,
     Txs |-> batch,
     BlockTime |-> IF lastBlock.BlockTime >= now THEN lastBlock.BlockTime + 1
                   ELSE now]

\* NewBlockstore, and the current block of InitBlock; written is the
\* sequence of the blocks WriteBlock has accepted.
NewBlockstore(isPrimary, blockTime) ==
    [pc |-> "start", isPrimary |-> isPrimary, issleep |-> TRUE,
     currentBlock |-> FirstBlock(blockTime), requestChan |-> <<>>,
     written |-> <<>>]

\* Propose: the request of the block is sent on requestChan.
Propose(c, block) == [c EXCEPT !.requestChan = Append(@, block)]

SameNode ==
    UNCHANGED <<txs, mempool, blocks, lastHeader, storeVars, rescanUTXOflag,
                rescan, reply, fnArgs, fnResult, mtx, pc>>

\* CreateBlock up to its loop: a client that is not the primary returns.
CreateBlock ==
    /\ client.pc = "start"
    /\ client' = [client EXCEPT !.pc = IF client.isPrimary THEN "loop"
                                       ELSE "returned"]
    /\ SameNode

\* One round of the loop of CreateBlock up to readReply: with no
\* transaction it sleeps and starts again, with some it proposes a block.
CreateBlockLoop ==
    /\ client.pc = "loop"
    /\ \E batch \in TxBatches, now \in Clock :
          LET lastBlock == client.currentBlock
          IN  IF Len(batch) = 0
              THEN client' = [client EXCEPT !.issleep = TRUE]
              ELSE /\ Len(client.requestChan) < MaxProposals
                   /\ client' = [Propose(client, newblock(lastBlock, batch, now))
                                    EXCEPT !.issleep = FALSE, !.pc = "reply"]
    /\ SameNode

\* What comes from replyChan: nil, or a reply whose result is a block the
\* replicas were asked for.
NilData == [nil |-> TRUE]
Replies == {NilData} \cup
    {[nil |-> FALSE, Value |-> client.requestChan[k]] :
        k \in DOMAIN client.requestChan}

\* readReply: the block of the reply is written, and made the current
\* block when WriteBlock returned no error.
readReply ==
    /\ client.pc = "reply"
    /\ \E data \in Replies, writeOk \in BOOLEAN :
          IF data.nil \/ ~writeOk
          THEN client' = [client EXCEPT !.pc = "loop"]
          ELSE client' = [client EXCEPT !.pc = "loop",
                                        !.written = Append(@, data.Value),
                                        !.currentBlock = data.Value]
    /\ SameNode

InitPbft ==
    /\ txs = <<>>
    /\ mempool = {}
    /\ blocks = <<>>
    /\ lastHeader = NoHeader
    /\ utxoRec = <<>>
    /\ availIdx = {}
    /\ ftxos = {}
    /\ revertFtxos = {}
    /\ stxos = {}
    /\ scanInput = {}
    /\ rescanFlagDb = [a \in Accounts |-> "NoScan"]
    /\ rescanUTXOflag = "NoScan"
    /\ rescan = Idle
    /\ reply = NoReply
    /\ fnArgs = NoArgs
    /\ fnResult = NoResult
    /\ mtx = "none"
    /\ pc = [t \in Threads |-> "idle"]
    /\ \E isPrimary \in BOOLEAN, blockTime \in Clock :
          client = NewBlockstore(isPrimary, blockTime)

NextPbft == CreateBlock \/ CreateBlockLoop \/ readReply

SpecPbft == InitPbft /\ [][NextPbft]_vars

\* The blocks a step proposes.
Proposed ==
    {client'.requestChan[k] :
        k \in DOMAIN client'.requestChan \ DOMAIN client.requestChan}

\* C40: only a primary client proposes blocks; a block it proposes has the
\* height of the current block plus one, the hash of the current block as
\* its parent hash and a block time above that of the current block; and
\* the current block is replaced in readReply only, by the block of the
\* reply that WriteBlock has written.
C40_ProposalsExtendCurrent ==
    [][/\ \A b \in Proposed :
             /\ client.isPrimary
             /\ b.Height = client.currentBlock.Height + 1
             /\ b.ParentHash = Hash(client.currentBlock)
             /\ b.BlockTime > client.currentBlock.BlockTime
       /\ client'.currentBlock # client.currentBlock =>
             /\ client.pc = "reply"
             /\ client'.written = Append(client.written, client'.currentBlock)
             /\ client'.currentBlock \in Range(client.requestChan)]_vars

\* C40: the primary has proposed two blocks and both were written; the
\* clock had not passed the block time of the first when the second was
\* built.
C40_Witness ==
    /\ client.isPrimary
    /\ Len(client.written) = 2
    /\ client.currentBlock = client.requestChan[2]
    /\ client.currentBlock.Height = 2
    /\ client.currentBlock.ParentHash = Hash(client.requestChan[1])
    /\ client.currentBlock.BlockTime = client.requestChan[1].BlockTime + 1

====
